---- MODULE Spec2Model ----
(***************************************************************************)
(* Repeat-Runner: the macro execution engine (repeat_runner/executor.py),   *)
(* the definition validator (repeat_runner/macros.py) and the events the   *)
(* engine sends to the logger (repeat_runner/logger.py).                   *)
(*                                                                         *)
(* execute_macro is recursive; the model keeps the Python activations of   *)
(* execute_macro in `frames` and takes one step per loop iteration of      *)
(* executor.py:66 (a macro-call step, a literal-command step) and one per  *)
(* return of an activation (executor.py:135-136).                          *)
(***************************************************************************)
EXTENDS Integers, Sequences, FiniteSets, TLC

(***************************************************************************)
(* Bounds of the model.                                                    *)
(***************************************************************************)
\* steps of all definitions of a mapping together, in the control-flow family
MaxTotalSteps == 3
\* top-level invocations of execute_macro in one process
MaxRuns == 2
\* the method calls made on one Logger object
MaxLoggerCalls == 4

(***************************************************************************)
(* Names, commands, environment keys.                                      *)
(***************************************************************************)
MacroNames == {"a", "b", "c"}
\* a name no definition mapping contains
Missing == "z"
Cmds == {"c1", "c2"}
\* the macro every top-level run invokes
Top == "a"

\* os.environ of the process: X is set, Y is not
Ambient == [k \in {"X"} |-> "amb"]

(***************************************************************************)
(* Steps and definitions as the YAML loader delivers them.                 *)
(***************************************************************************)
\* a string step
Lit(c) == [kind |-> "str", text |-> c]
\* a mapping step {call: n}
Call(n) == [kind |-> "call", text |-> n]

\* a mapping step with the key 'call' and other keys beside it
CallWithKeys(n) == [kind |-> "callx", text |-> n]
\* a mapping step without the key 'call'; text is how it prints
MapStep(t) == [kind |-> "map", text |-> t]
\* a step that is a number, null or a sequence; text is how it prints
IntStep(t) == [kind |-> "int", text |-> t]
NullStep(t) == [kind |-> "none", text |-> t]
SeqStep(t) == [kind |-> "seq", text |-> t]

\* variant: the call branch never taken
IsCallStepNever(s) == FALSE

\* variant: only a mapping whose single key is 'call' is a call
IsCallStepOnlyKey(s) == s.kind = "call"

\* executor.py:68  isinstance(command, dict) and 'call' in command
IsCallStep(s) == s.kind \in {"call", "callx"}

EmptyEnv == [k \in {} |-> ""]

\* A definition: kind is the Python type of the value (list, dict, other);
\* for a dict, which entries it has and of which type they are; nonstr is
\* the set of env keys whose value is not a string.
Def(kind, hasC, cList, cmds, hasE, eDict, env, nonstr) ==
    [kind |-> kind, has_commands |-> hasC, commands_is_list |-> cList,
     commands |-> cmds, has_env |-> hasE, env_is_dict |-> eDict,
     env |-> env, nonstr |-> nonstr]

ListDef(cmds) == Def("list", FALSE, FALSE, cmds, FALSE, FALSE, EmptyEnv, {})
DictDef(cmds) == Def("dict", TRUE, TRUE, cmds, FALSE, FALSE, EmptyEnv, {})
DictEnvDef(cmds, env) == Def("dict", TRUE, TRUE, cmds, TRUE, TRUE, env, {})
\* the malformed shapes
ScalarDef == Def("other", FALSE, FALSE, <<>>, FALSE, FALSE, EmptyEnv, {})
NoCommandsDef == Def("dict", FALSE, FALSE, <<>>, FALSE, FALSE, EmptyEnv, {})
BadCommandsDef == Def("dict", TRUE, FALSE, <<>>, FALSE, FALSE, EmptyEnv, {})
BadEnvDef(cmds) == Def("dict", TRUE, TRUE, cmds, TRUE, FALSE, EmptyEnv, {})
BadEnvValueDef(cmds, env, bad) == Def("dict", TRUE, TRUE, cmds, TRUE, TRUE, env, bad)

(***************************************************************************)
(* macros.py: validate_macro_definition.  "ok" or the first failed check.  *)
(***************************************************************************)
validate_env_first(d) ==
    IF d.kind \notin {"dict", "list"} THEN "type"
    ELSE IF d.kind = "dict" /\ d.has_env /\ ~d.env_is_dict THEN "env_type"
    ELSE IF d.kind = "dict" /\ d.has_env /\ d.nonstr # {} THEN "env_value"
    ELSE IF d.kind = "dict" /\ ~d.has_commands THEN "missing_commands"
    ELSE IF d.kind = "dict" /\ ~d.commands_is_list THEN "commands_type"
    ELSE "ok"

validate_nonempty(d) ==
    IF d.kind \notin {"dict", "list"} THEN "type"
    ELSE IF d.kind = "dict" /\ ~d.has_commands THEN "missing_commands"
    ELSE IF d.kind = "dict" /\ ~d.commands_is_list THEN "commands_type"
    ELSE IF d.commands = <<>> THEN "commands_type"
    ELSE IF d.kind = "dict" /\ d.has_env /\ ~d.env_is_dict THEN "env_type"
    ELSE IF d.kind = "dict" /\ d.has_env /\ d.nonstr # {} THEN "env_value"
    ELSE "ok"

validate_macro_definition(d) ==
    IF d.kind \notin {"dict", "list"} THEN "type"
    ELSE IF d.kind = "dict" THEN
        IF ~d.has_commands THEN "missing_commands"
        ELSE IF ~d.commands_is_list THEN "commands_type"
        ELSE IF d.has_env THEN
            IF ~d.env_is_dict THEN "env_type"
            ELSE IF d.nonstr # {} THEN "env_value"
            ELSE "ok"
        ELSE "ok"
    ELSE "ok"

\* the keys of an env mapping in the order the document writes them
EnvKeyOrder == <<"X", "Y">>

\* macros.py:64-67: the loop over env.items() stops at the first value that
\* is not a string, and the error names its key
OffendingKey(d) ==
    LET first == CHOOSE j \in 1..Len(EnvKeyOrder) :
                    /\ EnvKeyOrder[j] \in d.nonstr
                    /\ \A h \in 1..(j - 1) : EnvKeyOrder[h] \notin d.nonstr
    IN EnvKeyOrder[first]

\* what the ValueError message carries: the macro, the failed check and,
\* for a value that is not a string, the key
ErrorDetail(name, d, v) ==
    IF v = "env_value" THEN <<name, v, OffendingKey(d)>> ELSE <<name, v>>

(***************************************************************************)
(* executor.py:49-64: the commands and the environment of one expansion.   *)
(***************************************************************************)
\* dict.update: every key of o set or overwritten in e
Update(e, o) ==
    [k \in (DOMAIN e) \cup (DOMAIN o) |-> IF k \in DOMAIN o THEN o[k] ELSE e[k]]

\* variant: steps taken from a bare sequence only
CommandsOfSequenceOnly(d) == IF d.kind = "list" THEN d.commands ELSE <<>>

\* executor.py:51 / :59
CommandsOf(d) == IF d.kind = "dict" THEN (IF d.has_commands THEN d.commands ELSE <<>>)
                 ELSE d.commands

\* executor.py:53  macro_definition.get('env', {})
MacroEnvOf(d) == IF d.kind = "dict" /\ d.has_env THEN d.env ELSE EmptyEnv

\* variant: the process environment laid over the macro's overrides
ScopeEnvAmbientWins(d, process_env) == Update(MacroEnvOf(d), process_env)

\* executor.py:56-57 / :61  env = os.environ.copy(); env.update(macro_env)
ScopeEnv(d, process_env) == Update(process_env, MacroEnvOf(d))

\* variant: no copy, os.environ itself updated
EnvironUpdatedInPlace(process_env, d) == Update(process_env, MacroEnvOf(d))

\* os.environ after executor.py:56-57: the update is applied to a copy
EnvironAfterScope(process_env, d) == process_env

(***************************************************************************)
(* Events sent to the logger (Logger.info / warn / error / log_command).   *)
(***************************************************************************)
Ev(level, what, arg) == [level |-> level, what |-> what, arg |-> arg,
                         index |-> 0, total |-> 0]

\* executor.py:86-90  the progress indicator of the literal step at position i
ActualCommands(commands) == SelectSeq(commands, LAMBDA s : ~IsCallStep(s))

\* list.index: the first position holding an equal value
IndexOf(seq, x) == CHOOSE j \in 1..Len(seq) :
                      /\ seq[j] = x
                      /\ \A h \in 1..(j - 1) : seq[h] # x

CommandIndex(commands, i) == IndexOf(ActualCommands(commands), commands[i])

EvRunning(commands, i) ==
    [level |-> "info", what |-> "running", arg |-> <<commands[i].text>>,
     index |-> CommandIndex(commands, i),
     total |-> Len(ActualCommands(commands))]

(***************************************************************************)
(* What the command executor (subprocess.run) can do with one command.     *)
(***************************************************************************)
Outcomes ==
    { [kind |-> "exit", code |-> 0, stdout |-> "out", stderr |-> ""],
      [kind |-> "exit", code |-> 2, stdout |-> "", stderr |-> "err"],
      [kind |-> "raise", code |-> 0, stdout |-> "", stderr |-> "exc"] }

(***************************************************************************)
(* The failure policy: which conditions end the run (sys.exit).            *)
(*   circular   executor.py:36      invalid    executor.py:47              *)
(*   not_found  executor.py:76-77   failed     executor.py:119-121         *)
(*   exception  executor.py:130-131                                        *)
(***************************************************************************)
\* variants of the policy: a cycle skipped like a missing macro under
\* continue-on-error; a failing command never stopping the run; the flag
\* ignored; a malformed definition skipped under continue-on-error
FatalCycleSkipped(what, coe) ==
    IF what = "invalid" THEN TRUE ELSE ~coe

FatalCommandContinues(what, coe) ==
    IF what \in {"circular", "invalid"} THEN TRUE
    ELSE IF what = "failed" THEN FALSE ELSE ~coe

FatalFlagIgnored(what, coe) == TRUE

FatalInvalidSkipped(what, coe) ==
    IF what = "circular" THEN TRUE ELSE ~coe

FatalMissingSkipped(what, coe) ==
    IF what \in {"circular", "invalid"} THEN TRUE
    ELSE IF what = "not_found" THEN FALSE ELSE ~coe

FatalExceptionSkipped(what, coe) ==
    IF what \in {"circular", "invalid"} THEN TRUE
    ELSE IF what = "exception" THEN FALSE ELSE ~coe

Fatal(what, coe) ==
    IF what \in {"circular", "invalid"} THEN TRUE ELSE ~coe

\* variant: the dry-run test missing
DryRunIgnored(lg) == FALSE

\* executor.py:92  if logger.dry_run
DryRun(lg) == lg.dry_run

\* The iteration orders of a Python set: any enumeration of its elements.
Orderings(S) ==
    { f \in [1..Cardinality(S) -> S] : \A i, j \in 1..Cardinality(S) : f[i] = f[j] => i = j }

\* executor.py:34  macro_name in executed_macros
InCallStackAnyOpen(name, em) == em # {}

InCallStackAlways(name, em) == TRUE

InCallStackNever(name, em) == FALSE

InCallStack(name, em) == name \in em

\* executor.py:38  executed_macros.add(macro_name)
Push(em, name) == em \cup {name}

\* executor.py:135  executed_macros.remove(macro_name)
PopKeeps(em, name) == em

PopAll(em, name) == {}

Pop(em, name) == em \ {name}

\* executor.py:35  ' -> '.join(executed_macros) -> macro_name, the set
\* iterated in the order `order`
RenderChain(order, name) == order \o <<name>>

NoFrame == [name |-> "", commands |-> <<>>, env |-> EmptyEnv, i |-> 0]

\* executor.py:31-64: the prologue of one activation of execute_macro.
Enter(name, d, em, order, process_env) ==
    IF InCallStack(name, em)
    THEN [result |-> "circular", executed |-> em, frame |-> NoFrame,
          events |-> <<Ev("error", "circular", RenderChain(order, name))>>]
    ELSE LET v == validate_macro_definition(d) IN
         IF v # "ok"
         THEN [result |-> "invalid", executed |-> Push(em, name), frame |-> NoFrame,
               events |-> <<Ev("info", "executing", <<name>>),
                            Ev("error", "invalid", ErrorDetail(name, d, v))>>]
         ELSE [result |-> "entered", executed |-> Push(em, name),
               frame |-> [name |-> name, commands |-> CommandsOf(d),
                          env |-> ScopeEnv(d, process_env), i |-> 1],
               events |-> <<Ev("info", "executing", <<name>>)>>]

\* executor.py:31-32: a call that passes no set gets a fresh empty one
StartSetShared(given, em) == em

StartSet(given, em) == IF given THEN em ELSE {}

\* argparse's namespace: the command and the optional macro name
NoName == "none"

Args(command, macro_name) == [command |-> command, macro_name |-> macro_name]

(***************************************************************************)
(* logger.py: what a logger call appends to the log file.  Timestamps are  *)
(* left out.                                                               *)
(***************************************************************************)
Line(tag, body) == [tag |-> tag, body |-> body]

\* logger.py:91-96: the entry log_command builds from its three arguments
LogEntry(command, output, error) ==
    <<Line("EXECUTED:", <<command>>)>>
    \o (IF output # "" THEN <<Line("OUTPUT:", <<output>>)>> ELSE <<>>)
    \o (IF error # "" THEN <<Line("ERROR:", <<error>>)>> ELSE <<>>)

\* variant: command records are not written to the file
FileLinesMessagesOnly(e) ==
    IF e.level = "record" THEN <<>>
    ELSE <<Line(IF e.level = "info" THEN "[INFO]"
                ELSE IF e.level = "warn" THEN "[WARNING]" ELSE "[ERROR]",
                <<e.what>> \o e.arg)>>

\* logger.py:54-85, :107-108: the lines one logger call hands to _write_to_file
FileLines(e) ==
    IF e.level = "record" THEN LogEntry(e.arg[1], e.arg[2], e.arg[3])
    ELSE <<Line(IF e.level = "info" THEN "[INFO]"
                ELSE IF e.level = "warn" THEN "[WARNING]" ELSE "[ERROR]",
                <<e.what>> \o e.arg)>>

\* logger.py:54-85, :97-103: what one logger call prints; info, warn and
\* error always print, log_command prints its record only when verbose
ConsoleLinesSilent(e, verbose) == <<>>

ConsoleLines(e, verbose) ==
    IF e.level = "record"
    THEN IF verbose
         THEN <<Line("[COMMAND]", <<e.arg[1]>>)>>
              \o (IF e.arg[2] # "" THEN <<Line("[OUTPUT]", <<e.arg[2]>>)>> ELSE <<>>)
              \o (IF e.arg[3] # "" THEN <<Line("[ERROR]", <<e.arg[3]>>)>> ELSE <<>>)
         ELSE <<>>
    ELSE <<Line(IF e.level = "info" THEN "[INFO]"
                ELSE IF e.level = "warn" THEN "[WARNING]" ELSE "[ERROR]",
                <<e.what>> \o e.arg)>>

RECURSIVE Written(_)
Written(evs) == IF evs = <<>> THEN <<>> ELSE FileLines(Head(evs)) \o Written(Tail(evs))

\* variant: a write replaces the file's content
WriteToFileTruncating(handle, file, lines) == IF handle = "open" THEN lines ELSE file

\* logger.py:43-52: nothing is written without an open handle
WriteToFile(handle, file, lines) == IF handle = "open" THEN file \o lines ELSE file

\* variant: the constructor takes every path for one it can open
OpenLogAnyPath(lg, file) ==
    IF lg.log_file # "none"
    THEN [handle |-> "open", file |-> Append(file, Line("header", <<>>))]
    ELSE [handle |-> "none", file |-> file]

\* logger.py:20-41: the constructor opens the file for appending and writes
\* a header; without a log file, or when it cannot be opened, there is no handle
OpenLog(lg, file) ==
    IF lg.log_file = "writable"
    THEN [handle |-> "open", file |-> Append(file, Line("header", <<>>))]
    ELSE [handle |-> "none", file |-> file]

\* logger.py:110-116
CloseLeavesOpen(handle) == handle

Close(handle) == IF handle = "open" THEN "closed" ELSE handle

(***************************************************************************)
(* State.                                                                  *)
(***************************************************************************)
(***************************************************************************)
(* macros.py:8-37  load_macros, on the document yaml.safe_load delivers.   *)
(***************************************************************************)
YNull == [kind |-> "null", items |-> <<>>]
YSeq == [kind |-> "seq", items |-> <<>>]
YStr == [kind |-> "str", items |-> <<>>]
YMap(items) == [kind |-> "map", items |-> items]

Doc(state, root) == [state |-> state, root |-> root]

\* no document is looked at on its own
NoDocument == Doc("none", YNull)

Returned(v) == [outcome |-> "returned", value |-> v, error |-> ""]
Raises(e) == [outcome |-> "raised", value |-> YNull, error |-> e]

load_macros(doc) ==
    IF doc.state = "missing" THEN Raises("FileNotFoundError")
    ELSE IF doc.state = "unreadable" THEN Raises("PermissionError")
    ELSE IF doc.state = "invalid" THEN Raises("ValueError")
    ELSE IF doc.root.kind = "null" THEN Returned(YMap(<<>>))
    ELSE IF doc.root.kind = "map"
    THEN IF "macros" \in DOMAIN doc.root.items
         THEN Returned(doc.root.items["macros"])
         ELSE Returned(doc.root)
    ELSE Raises("ValueError")

VARIABLES
    runner_yaml,        \* the definition mapping load_macros() returns
    environ,            \* os.environ
    continue_on_error,  \* the flag threaded through every activation
    logger,             \* Logger.dry_run, Logger.verbose
    frames,             \* the activations of execute_macro, outermost first
    executed_macros,    \* the set shared by all activations of one run
    calls,              \* subprocess.run invocations of the current run: the
                        \* command, the env passed, what the executor did, and
                        \* the activations open at that moment
    events,             \* logger calls of the current run
    status,             \* idle, running, returned (normal return), exited
                        \* (SystemExit), crashed (an exception nothing catches)
    exit_code,          \* the SystemExit code, 0 when none
    run,                \* top-level invocations started so far
    args,               \* the parsed command line: command, macro_name
    source,             \* runner.yaml on disk: ok, missing, invalid
    supplied,           \* the caller passes its own executed_macros set
    precall,            \* the set's contents when the top-level call was made
    file_handle,        \* Logger.file_handle: none, open, closed
    log_file,           \* the lines of the log file
    loaded,             \* the mapping main got from load_macros()
    document            \* a YAML document handed to load_macros on its own

vars == <<runner_yaml, environ, continue_on_error, logger, frames,
          executed_macros, calls, events, status, exit_code, run,
          args, source, supplied, precall, file_handle, log_file, loaded,
          document>>

config == <<runner_yaml, continue_on_error, logger, args, source, supplied, document>>

\* variant: the outermost activation
CurOutermost == frames[1]

\* the activation that is executing, and its current step
Cur == frames[Len(frames)]
AtStep == status = "running" /\ frames # <<>> /\ Cur.i <= Len(Cur.commands)
CurStep == Cur.commands[Cur.i]

FrameNames(fs) == [j \in 1..Len(fs) |-> fs[j].name]

\* the for loop of executor.py:66 moves to the next step
Advance(fs) == [fs EXCEPT ![Len(fs)].i = @ + 1]

\* sys.exit(code): SystemExit unwinds every activation; nothing is popped
\* from executed_macros on the way (executor.py:135 is not reached)
ExitGeneric(code, evs) ==
    /\ status' = "exited"
    /\ exit_code' = 1
    /\ frames' = <<>>
    /\ events' = events \o evs

Exit(code, evs) ==
    /\ status' = "exited"
    /\ exit_code' = code
    /\ frames' = <<>>
    /\ events' = events \o evs

\* the logger calls of a step reach the log file
LogsAppended ==
    log_file' = WriteToFile(file_handle, log_file,
                            Written(SubSeq(events', Len(events) + 1, Len(events'))))

\* runner.py:35: main builds its Logger; a caller of execute_macro brings its own
MainLogger ==
    IF supplied THEN [handle |-> file_handle, file |-> log_file]
    ELSE OpenLog(logger, log_file)

LogsFromStart ==
    log_file' = WriteToFile(MainLogger.handle, MainLogger.file, Written(events'))

(***************************************************************************)
(* A top-level invocation: execute_macro(name, macros[name], logger, coe)  *)
(* with executed_macros left to its default (runner.py:72-73,              *)
(* executor.py:31-32), then the prologue of the invoked macro.             *)
(***************************************************************************)
StartRun ==
    /\ status # "running"
    /\ run < MaxRuns
    /\ source = "ok"
    /\ args.command = "run"
    /\ args.macro_name \in DOMAIN runner_yaml
    /\ run' = run + 1
    /\ calls' = <<>>
    /\ precall' = StartSet(supplied, executed_macros)
    /\ loaded' = runner_yaml
    /\ \E order \in Orderings(StartSet(supplied, executed_macros)) :
        LET name == args.macro_name
            r == Enter(name, runner_yaml[name],
                       StartSet(supplied, executed_macros), order, environ)
        IN
        /\ executed_macros' = r.executed
        /\ environ' = EnvironAfterScope(environ, runner_yaml[name])
        /\ IF r.result = "entered"
           THEN /\ frames' = <<r.frame>>
                /\ status' = "running"
                /\ exit_code' = 0
                /\ events' = r.events
           ELSE IF Fatal(r.result, continue_on_error)
           THEN /\ frames' = <<>>
                /\ status' = "exited"
                /\ exit_code' = 1
                /\ events' = r.events
           ELSE /\ frames' = <<>>
                /\ status' = "returned"
                /\ exit_code' = 0
                /\ events' = r.events
    /\ LogsFromStart
    /\ file_handle' = MainLogger.handle
    /\ UNCHANGED config

(***************************************************************************)
(* executor.py:68-83: a macro-call step.                                   *)
(***************************************************************************)
StepCall ==
    /\ AtStep
    /\ IsCallStep(CurStep)
    /\ LET called == CurStep.text
           calling == <<Ev("info", "calling", <<called>>)>>
           all_macros == runner_yaml
       IN
       IF source # "ok"
       THEN /\ status' = "crashed"
            /\ exit_code' = 1
            /\ frames' = <<>>
            /\ events' = events \o calling
            /\ UNCHANGED <<executed_macros, environ>>
       ELSE IF called \notin DOMAIN all_macros
       THEN LET notfound == calling \o <<Ev("error", "not_found", <<called>>)>> IN
            /\ UNCHANGED <<executed_macros, environ>>
            /\ IF Fatal("not_found", continue_on_error)
               THEN Exit(1, notfound)
               ELSE /\ events' = events \o notfound
                                 \o <<Ev("warn", "skip_missing", <<called>>)>>
                    /\ frames' = Advance(frames)
                    /\ UNCHANGED <<status, exit_code>>
       ELSE \E order \in Orderings(executed_macros) :
            LET r == Enter(called, all_macros[called], executed_macros, order, environ) IN
            /\ executed_macros' = r.executed
            /\ environ' = EnvironAfterScope(environ, all_macros[called])
            /\ IF r.result = "entered"
               THEN /\ frames' = Append(frames, r.frame)
                    /\ events' = events \o calling \o r.events
                    /\ UNCHANGED <<status, exit_code>>
               ELSE IF Fatal(r.result, continue_on_error)
               THEN Exit(1, calling \o r.events)
               ELSE /\ events' = events \o calling \o r.events
                    /\ frames' = Advance(frames)
                    /\ UNCHANGED <<status, exit_code>>
    /\ LogsAppended
    /\ UNCHANGED <<config, calls, run, precall, file_handle, loaded>>

(***************************************************************************)
(* executor.py:84-133: a literal-command step.                             *)
(***************************************************************************)
\* logger.log_command(command, output, error)   executor.py:107-108, :128
EvRecord(cmd, o) ==
    IF o.kind = "raise"
    THEN Ev("record", "log_command", <<cmd, "", o.stderr>>)
    ELSE Ev("record", "log_command",
            <<cmd, IF o.stdout # "" THEN o.stdout ELSE "(no output)", o.stderr>>)

\* executor.py:110-113
EvVerbose(cmd, o) ==
    IF logger.verbose
    THEN <<Ev("info", "output", <<cmd, o.stdout>>)>>
         \o (IF o.stderr # "" THEN <<Ev("error", "errors", <<cmd, o.stderr>>)>> ELSE <<>>)
    ELSE <<>>

\* executor.py:116-118
EvFailed(cmd, o) ==
    <<Ev("error", "failed", <<cmd>>)>>
    \o (IF o.stderr # "" THEN <<Ev("error", "errors", <<cmd, o.stderr>>)>> ELSE <<>>)

StepDryRun ==
    /\ AtStep
    /\ ~IsCallStep(CurStep)
    /\ DryRun(logger)
    /\ events' = events \o <<EvRunning(Cur.commands, Cur.i),
                             Ev("info", "dry_run", <<CurStep.text>>)>>
    /\ frames' = Advance(frames)
    /\ LogsAppended
    /\ UNCHANGED <<config, environ, executed_macros, calls, status, exit_code, run, precall,
                   file_handle, loaded>>

StepCommand ==
    /\ AtStep
    /\ ~IsCallStep(CurStep)
    /\ ~DryRun(logger)
    /\ \E o \in Outcomes :
        LET cmd == CurStep.text
            running == <<EvRunning(Cur.commands, Cur.i)>>
        IN
        /\ calls' = Append(calls, [cmd |-> cmd, env |-> Cur.env, out |-> o,
                                   stack |-> FrameNames(frames)])
        /\ IF o.kind = "raise"
           THEN LET evs == running \o <<EvRecord(cmd, o), Ev("error", "exception", <<cmd, o.stderr>>)>> IN
                IF Fatal("exception", continue_on_error)
                THEN Exit(1, evs)
                ELSE /\ events' = events \o evs \o <<Ev("warn", "continuing_exception", <<cmd>>)>>
                     /\ frames' = Advance(frames)
                     /\ UNCHANGED <<status, exit_code>>
           ELSE LET evs == running \o <<EvRecord(cmd, o)>> \o EvVerbose(cmd, o) IN
                IF o.code # 0
                THEN IF Fatal("failed", continue_on_error)
                     THEN Exit(o.code, evs \o EvFailed(cmd, o)
                                           \o <<Ev("error", "stopping", <<>>)>>)
                     ELSE /\ events' = events \o evs \o EvFailed(cmd, o)
                                       \o <<Ev("warn", "continuing", <<cmd>>)>>
                          /\ frames' = Advance(frames)
                          /\ UNCHANGED <<status, exit_code>>
                ELSE /\ events' = events \o evs \o <<Ev("info", "succeeded", <<cmd>>)>>
                     /\ frames' = Advance(frames)
                     /\ UNCHANGED <<status, exit_code>>
    /\ LogsAppended
    /\ UNCHANGED <<config, environ, executed_macros, run, precall, file_handle, loaded>>

(***************************************************************************)
(* executor.py:135-136: the loop is over; the activation returns and its   *)
(* caller's loop (executor.py:83 was its current step) moves on.           *)
(***************************************************************************)
Return ==
    /\ status = "running"
    /\ frames # <<>>
    /\ Cur.i > Len(Cur.commands)
    /\ executed_macros' = Pop(executed_macros, Cur.name)
    /\ events' = Append(events, Ev("info", "completed", <<Cur.name>>))
    /\ IF Len(frames) = 1
       THEN /\ frames' = <<>>
            /\ status' = "returned"
       ELSE /\ frames' = Advance(SubSeq(frames, 1, Len(frames) - 1))
            /\ UNCHANGED status
    /\ LogsAppended
    /\ file_handle' = IF Len(frames) = 1 /\ ~supplied THEN Close(file_handle) ELSE file_handle
    /\ UNCHANGED <<config, environ, calls, exit_code, run, precall, loaded>>

Next == StartRun \/ StepCall \/ StepDryRun \/ StepCommand \/ Return

(***************************************************************************)
(* runner.py:24-76: main, up to the point where it calls execute_macro     *)
(* (StartRun) or leaves.                                                   *)
(***************************************************************************)
\* the keys of the mapping in the order the document writes them
KeyOrder == <<"a", "b", "c">>

\* runner.py:38-40: load_macros() succeeded; an empty result is reported
LoadWarning ==
    IF DOMAIN runner_yaml = {} THEN <<Ev("warn", "no_macros", <<>>)>> ELSE <<>>

\* variant: every way out of main reports success
MainEndsSilently(st, code, evs) ==
    /\ status' = st
    /\ exit_code' = 0
    /\ events' = evs
    /\ calls' = <<>>
    /\ frames' = <<>>
    /\ precall' = {}
    /\ run' = run + 1
    /\ loaded' = IF source = "ok" THEN runner_yaml ELSE loaded
    /\ LogsFromStart
    /\ file_handle' = IF st = "returned" THEN Close(MainLogger.handle) ELSE MainLogger.handle
    /\ UNCHANGED <<config, environ, executed_macros>>

\* main stops: sys.exit(code), or a plain return when code is 0
MainEnds(st, code, evs) ==
    /\ status' = st
    /\ exit_code' = code
    /\ events' = evs
    /\ calls' = <<>>
    /\ frames' = <<>>
    /\ precall' = {}
    /\ run' = run + 1
    /\ loaded' = IF source = "ok" THEN runner_yaml ELSE loaded
    /\ LogsFromStart
    /\ file_handle' = IF st = "returned" THEN Close(MainLogger.handle) ELSE MainLogger.handle
    /\ UNCHANGED <<config, environ, executed_macros>>

MainReady == status # "running" /\ run < MaxRuns /\ ~supplied

\* runner.py:41-49: load_macros() raised
MainLoadError ==
    /\ MainReady
    /\ source # "ok"
    /\ MainEnds("exited", 1, <<Ev("error", "load_failed", <<source>>)>>)

\* runner.py:51-60
MainList ==
    /\ MainReady
    /\ source = "ok"
    /\ args.command = "list"
    /\ LET names == SelectSeq(KeyOrder, LAMBDA n : n \in DOMAIN runner_yaml) IN
       MainEnds("returned", 0,
                LoadWarning \o <<Ev("info", "available", <<>>)>>
                \o [j \in 1..Len(names) |-> Ev("info", "list_item", <<names[j]>>)])

\* runner.py:62-66
MainUsageError ==
    /\ MainReady
    /\ source = "ok"
    /\ args.command = "run"
    /\ args.macro_name = NoName
    /\ MainEnds("exited", 2, LoadWarning \o <<Ev("error", "name_required", <<>>)>>)

\* runner.py:68-70
MainNotFound ==
    /\ MainReady
    /\ source = "ok"
    /\ args.command = "run"
    /\ args.macro_name # NoName
    /\ args.macro_name \notin DOMAIN runner_yaml
    /\ MainEnds("exited", 1,
                LoadWarning \o <<Ev("error", "macro_not_found", <<args.macro_name>>)>>)

NextMain ==
    \/ MainLoadError
    \/ MainList
    \/ MainUsageError
    \/ MainNotFound
    \/ StartRun
    \/ StepCall
    \/ StepDryRun
    \/ StepCommand
    \/ Return

(***************************************************************************)
(* The call graph of a definition mapping, read off the definitions.       *)
(***************************************************************************)
\* a definition of one of the two accepted shapes
WellFormed(d) ==
    \/ d.kind = "list"
    \/ /\ d.kind = "dict"
       /\ d.has_commands /\ d.commands_is_list
       /\ d.has_env => (d.env_is_dict /\ d.nonstr = {})

\* the names the call steps of macro n mention
Mentions(m, n) ==
    IF ~WellFormed(m[n]) THEN {}
    ELSE { m[n].commands[j].text :
             j \in { h \in 1..Len(m[n].commands) : m[n].commands[h].kind = "call" } }

RECURSIVE CallClosure(_, _)
CallClosure(m, S) ==
    LET T == S \cup (UNION { Mentions(m, n) : n \in S } \cap DOMAIN m) IN
    IF T = S THEN S ELSE CallClosure(m, T)

\* a cycle of calls can be reached from macro n
HasReachableCycle(m, n) ==
    \E x \in CallClosure(m, {n}) : x \in CallClosure(m, Mentions(m, x) \cap DOMAIN m)

(***************************************************************************)
(* The definition mappings and run options the model starts from.          *)
(***************************************************************************)
Mapping(da, db, dc) ==
    [n \in MacroNames |-> IF n = "a" THEN da ELSE IF n = "b" THEN db ELSE dc]

StepAlphabet == { Lit(c) : c \in Cmds } \cup { Call(n) : n \in MacroNames \cup {Missing} }

Bodies(k) == [1..k -> StepAlphabet]

\* Logger(dry_run, verbose, log_file): no log file, or one that can or
\* cannot be opened for appending
LogTo(dry, verbose, target) == [dry_run |-> dry, verbose |-> verbose, log_file |-> target]

Log(dry, verbose) == LogTo(dry, verbose, "none")

Cfg(m, coe, lg) == [macros |-> m, coe |-> coe, logger |-> lg]

\* Control flow: every mapping of bare-sequence definitions with at most
\* MaxTotalSteps steps in all, macros that Top cannot reach left empty.
LengthSplits ==
    { t \in (0..MaxTotalSteps) \X (0..MaxTotalSteps) \X (0..MaxTotalSteps) :
        t[1] + t[2] + t[3] <= MaxTotalSteps }

FlowMappings ==
    UNION { { m \in { Mapping(ListDef(ba), ListDef(bb), ListDef(bc)) :
                        ba \in Bodies(t[1]), bb \in Bodies(t[2]), bc \in Bodies(t[3]) } :
                \A n \in MacroNames \ CallClosure(m, {Top}) : m[n].commands = <<>> } :
            t \in LengthSplits }

FlowConfigs ==
    { Cfg(m, coe, Log(dry, FALSE)) : m \in FlowMappings, coe \in BOOLEAN, dry \in BOOLEAN }

\* Deeper call trees than MaxTotalSteps allows: a three-macro cycle with
\* commands around every call, a cycle below the invoked macro, one macro
\* reached along two branches, and undefined macros between commands.
DeepMappings ==
    { Mapping(ListDef(<<Lit("c1"), Call("b"), Lit("c2")>>),
              ListDef(<<Lit("c2"), Call("c"), Lit("c1")>>),
              DictDef(<<Lit("c1"), Call("a"), Lit("c2")>>)),
      Mapping(ListDef(<<Call("b"), Lit("c1")>>),
              DictDef(<<Lit("c1"), Call("c")>>),
              ListDef(<<Call("b"), Lit("c2")>>)),
      Mapping(ListDef(<<Call("b"), Call("c"), Lit("c1")>>),
              ListDef(<<Lit("c1"), Call("c")>>),
              ListDef(<<Lit("c2"), Lit("c1")>>)),
      Mapping(DictDef(<<Lit("c1"), Call(Missing), Call("b"), Lit("c2")>>),
              ListDef(<<Call(Missing), Lit("c1"), Call("c")>>),
              ListDef(<<>>)) }

DeepConfigs ==
    { Cfg(m, coe, Log(dry, FALSE)) : m \in DeepMappings, coe \in BOOLEAN, dry \in BOOLEAN }

\* Environment scoping: a three-level chain and two siblings, each macro
\* overriding any subset of the keys X, Y with a value naming the macro.
EnvKeys == {"X", "Y"}

Overrides(n, K) == [k \in K |-> n]

EnvDef(n, cmds, K) == IF K = {} THEN ListDef(cmds) ELSE DictEnvDef(cmds, Overrides(n, K))

EnvMappings ==
    { Mapping(EnvDef("a", <<Call("b"), Lit("c1")>>, Ka),
              EnvDef("b", <<Call("c"), Lit("c1")>>, Kb),
              EnvDef("c", <<Lit("c2")>>, Kc)) :
        Ka \in SUBSET EnvKeys, Kb \in SUBSET EnvKeys, Kc \in SUBSET EnvKeys }
    \cup
    { Mapping(EnvDef("a", <<Call("b"), Call("c"), Lit("c1")>>, Ka),
              EnvDef("b", <<Lit("c1")>>, Kb),
              EnvDef("c", <<Lit("c2")>>, Kc)) :
        Ka \in SUBSET EnvKeys, Kb \in SUBSET EnvKeys, Kc \in SUBSET EnvKeys }

EnvConfigs == { Cfg(m, coe, Log(FALSE, FALSE)) : m \in EnvMappings, coe \in BOOLEAN }

\* Malformed definitions, invoked directly and called between two commands.
InvalidDefs ==
    { ScalarDef, NoCommandsDef, BadCommandsDef, BadEnvDef(<<Lit("c1")>>),
      BadEnvValueDef(<<Lit("c1")>>, Overrides("b", {"X"}), {"X"}) }

InvalidMappings ==
    { Mapping(d, ListDef(<<>>), ListDef(<<>>)) : d \in InvalidDefs }
    \cup
    { Mapping(ListDef(<<Lit("c1"), Call("b"), Lit("c2")>>), d, ListDef(<<>>)) :
        d \in InvalidDefs }

InvalidConfigs ==
    { Cfg(m, coe, Log(dry, FALSE)) : m \in InvalidMappings, coe \in BOOLEAN, dry \in BOOLEAN }

\* Verbose console output.
VerboseConfigs ==
    { Cfg(Mapping(DictDef(<<Lit("c1"), Call("b")>>), ListDef(<<Lit("c2")>>), ListDef(<<>>)),
          coe, Log(dry, TRUE)) : coe \in BOOLEAN, dry \in BOOLEAN }

\* Definitions with no steps, in each accepted shape, invoked directly and
\* called between two commands.
EmptyDefs == { ListDef(<<>>), DictDef(<<>>), DictEnvDef(<<>>, Overrides("b", {"X"})) }

EmptyMappings ==
    { Mapping(d, ListDef(<<>>), ListDef(<<>>)) : d \in EmptyDefs }
    \cup
    { Mapping(ListDef(<<Lit("c1"), Call("b"), Lit("c2")>>), d, ListDef(<<>>)) :
        d \in EmptyDefs }

EmptyConfigs ==
    { Cfg(m, coe, Log(dry, FALSE)) : m \in EmptyMappings, coe \in BOOLEAN, dry \in BOOLEAN }

\* The same steps written as a bare sequence, as a mapping with only
\* 'commands', and as a mapping with 'commands' and an empty 'env'.
Shapes(cmds) == { ListDef(cmds), DictDef(cmds), DictEnvDef(cmds, EmptyEnv) }

ShapeMappings ==
    { Mapping(da, db, ListDef(<<>>)) :
        da \in Shapes(<<Lit("c1"), Call("b"), Lit("c2")>>), db \in Shapes(<<Lit("c1")>>) }

ShapeConfigs ==
    { Cfg(m, coe, Log(dry, FALSE)) : m \in ShapeMappings, coe \in BOOLEAN, dry \in BOOLEAN }

Configs ==
    FlowConfigs \cup DeepConfigs \cup EnvConfigs \cup InvalidConfigs
    \cup VerboseConfigs \cup EmptyConfigs \cup ShapeConfigs

\* the command line names no log file (logger.py:40-41)
NoLogFile == file_handle = "none" /\ log_file = <<>>

\* no invocation is in progress
Idle ==
    /\ environ = Ambient
    /\ frames = <<>>
    /\ calls = <<>>
    /\ events = <<>>
    /\ status = "idle"
    /\ exit_code = 0
    /\ precall = {}
    /\ loaded = runner_yaml
    /\ document = NoDocument

\* nothing has run yet
Fresh == Idle /\ run = 0

\* `runner run a` (or a host calling execute_macro("a", ...) with the set
\* left to its default) over a readable runner.yaml
Init ==
    /\ \E cfg \in Configs :
        /\ runner_yaml = cfg.macros
        /\ continue_on_error = cfg.coe
        /\ logger = cfg.logger
    /\ args = Args("run", Top)
    /\ source = "ok"
    /\ supplied = FALSE
    /\ executed_macros = {}
    /\ NoLogFile
    /\ Fresh

Spec == Init /\ [][Next]_vars

\* A host that calls execute_macro("a", ...) with a set of its own, which
\* may already hold names: a macro the host is expanding, a macro of the
\* mapping, the invoked macro itself.  The host keeps the set between calls.
Outer == "outer"

SuppliedStacks == SUBSET {Top, "c", Outer}

SuppliedConfigs == DeepConfigs \cup InvalidConfigs \cup VerboseConfigs

InitSupplied ==
    /\ \E cfg \in SuppliedConfigs :
        /\ runner_yaml = cfg.macros
        /\ continue_on_error = cfg.coe
        /\ logger = cfg.logger
    /\ args = Args("run", Top)
    /\ source = "ok"
    /\ supplied = TRUE
    /\ executed_macros \in SuppliedStacks
    /\ NoLogFile
    /\ Fresh

SpecSupplied == InitSupplied /\ [][Next]_vars

\* The command line: both commands, with and without a macro name, over a
\* runner.yaml that loads (with macros or empty), is absent, does not parse
\* or cannot be read.
NoMacros == [n \in {} |-> ListDef(<<>>)]

MainMappings ==
    { Mapping(ListDef(<<Lit("c1"), Call("b")>>), ListDef(<<Lit("c2")>>), ListDef(<<>>)),
      NoMacros }

Sources == {"ok", "missing", "invalid", "unreadable"}

CommandLines ==
    { Args("run", NoName), Args("run", Top), Args("run", Missing),
      Args("list", NoName), Args("list", Top) }

InitMain ==
    /\ runner_yaml \in MainMappings
    /\ continue_on_error \in BOOLEAN
    /\ logger \in { Log(dry, FALSE) : dry \in BOOLEAN }
    /\ args \in CommandLines
    /\ source \in Sources
    /\ supplied = FALSE
    /\ executed_macros = {}
    /\ NoLogFile
    /\ Fresh

SpecMain == InitMain /\ [][NextMain]_vars

\* Control flow only: the bare-sequence mappings and the deeper call trees.
InitFlow ==
    /\ \E cfg \in FlowConfigs \cup DeepConfigs :
        /\ runner_yaml = cfg.macros
        /\ continue_on_error = cfg.coe
        /\ logger = cfg.logger
    /\ args = Args("run", Top)
    /\ source = "ok"
    /\ supplied = FALSE
    /\ executed_macros = {}
    /\ NoLogFile
    /\ Fresh

SpecFlow == InitFlow /\ [][Next]_vars

\* File logging: the command line names a log file that can or cannot be
\* opened.  The session followed is the last of MaxRuns; the file may hold
\* lines of the earlier ones.
LogMappings == DeepMappings \cup MainMappings

PriorLogs == { <<>>, <<Line("[INFO]", <<"earlier">>)>> }

InitLog ==
    /\ runner_yaml \in LogMappings
    /\ continue_on_error \in BOOLEAN
    /\ logger \in { LogTo(dry, verbose, target) :
                       dry \in BOOLEAN, verbose \in BOOLEAN,
                       target \in {"writable", "unwritable"} }
    /\ args \in CommandLines
    /\ source \in {"ok", "missing"}
    /\ supplied = FALSE
    /\ executed_macros = {}
    /\ file_handle = "none"
    /\ log_file \in PriorLogs
    /\ Idle
    /\ run = MaxRuns - 1

SpecLog == InitLog /\ [][NextMain]_vars

(***************************************************************************)
(* runner.yaml changes while a run is under way: a command of the run, or  *)
(* another process, rewrites or removes the file.  executor.py:72 reads    *)
(* the file again at every macro-call step.                                *)
(***************************************************************************)
Without(m, n) == [x \in DOMAIN m \ {n} |-> m[x]]

Rewritten == ListDef(<<Lit("c2"), Lit("c2")>>)

Edits(m) ==
    { [m EXCEPT ![n] = Rewritten] : n \in DOMAIN m \ {Top} }
    \cup { Without(m, n) : n \in DOMAIN m \ {Top} }

EditSource ==
    /\ status = "running"
    /\ source = "ok"
    /\ runner_yaml = loaded
    /\ \/ /\ runner_yaml' \in Edits(runner_yaml)
          /\ UNCHANGED source
       \/ /\ source' \in {"missing", "invalid"}
          /\ UNCHANGED runner_yaml
    /\ UNCHANGED <<environ, continue_on_error, logger, frames, executed_macros,
                   calls, events, status, exit_code, run, args, supplied,
                   precall, file_handle, log_file, loaded, document>>

NextEdit == EditSource \/ StartRun \/ StepCall \/ StepDryRun \/ StepCommand \/ Return

EditMappings ==
    { Mapping(ListDef(<<Lit("c1"), Call("b"), Call("c")>>),
              ListDef(<<Lit("c1"), Call("c")>>),
              ListDef(<<Lit("c1")>>)) }

InitEdit ==
    /\ runner_yaml \in EditMappings
    /\ continue_on_error \in BOOLEAN
    /\ logger \in { Log(dry, FALSE) : dry \in BOOLEAN }
    /\ args = Args("run", Top)
    /\ source = "ok"
    /\ supplied = FALSE
    /\ executed_macros = {}
    /\ NoLogFile
    /\ Fresh

SpecEdit == InitEdit /\ [][NextEdit]_vars

(***************************************************************************)
(* Termination.  The interpreter is sequential: once execute_macro is      *)
(* running, the loop of executor.py:66 takes its next step as soon as the  *)
(* current one returns, and subprocess.run is assumed to return.  Nothing  *)
(* obliges the user to start another run.                                  *)
(***************************************************************************)
Step == StepCall \/ StepDryRun \/ StepCommand \/ Return

InitLive ==
    /\ \E cfg \in FlowConfigs \cup DeepConfigs \cup InvalidConfigs :
        /\ runner_yaml = cfg.macros
        /\ continue_on_error = cfg.coe
        /\ logger = cfg.logger
    /\ args = Args("run", Top)
    /\ source = "ok"
    /\ supplied = FALSE
    /\ executed_macros = {}
    /\ NoLogFile
    /\ Idle
    /\ run = MaxRuns - 1

SpecLive == InitLive /\ [][Next]_vars /\ WF_vars(Step)

(***************************************************************************)
(* The Logger on its own: a program constructs one Logger and calls its    *)
(* methods in any order, close included.  Here `events` is the sequence of *)
(* method calls made on the object (close leaves a "close" entry), and     *)
(* `run` counts the Logger objects constructed.                            *)
(***************************************************************************)
Message(level) == Ev(level, "message", <<>>)

Closing == Ev("close", "close", <<>>)

Records == { Ev("record", "log_command", <<"c1", o, e>>) :
               o \in {"", "out"}, e \in {"", "err"} }

LoggerCalled(e) ==
    /\ run = 1
    /\ status = "idle"
    /\ Len(events) < MaxLoggerCalls
    /\ events' = Append(events, e)
    /\ UNCHANGED <<config, environ, frames, executed_macros, calls, status,
                   exit_code, run, precall, loaded>>

\* logger.py:13-41  Logger(dry_run, verbose, log_file)
LoggerNew ==
    /\ run = 0
    /\ status = "idle"
    /\ run' = 1
    /\ file_handle' = OpenLog(logger, log_file).handle
    /\ log_file' = OpenLog(logger, log_file).file
    /\ UNCHANGED <<config, environ, frames, executed_macros, calls, events,
                   status, exit_code, precall, loaded>>

\* logger.py:54-63
LoggerInfo == LoggerCalled(Message("info")) /\ LogsAppended /\ UNCHANGED file_handle

\* logger.py:65-74
LoggerError == LoggerCalled(Message("error")) /\ LogsAppended /\ UNCHANGED file_handle

\* logger.py:76-85
LoggerWarn == LoggerCalled(Message("warn")) /\ LogsAppended /\ UNCHANGED file_handle

\* logger.py:87-108
LoggerLogCommand ==
    \E r \in Records : LoggerCalled(r) /\ LogsAppended /\ UNCHANGED file_handle

\* logger.py:110-116
LoggerClose ==
    /\ LoggerCalled(Closing)
    /\ file_handle' = Close(file_handle)
    /\ UNCHANGED log_file

NextLogger ==
    LoggerNew \/ LoggerInfo \/ LoggerError \/ LoggerWarn \/ LoggerLogCommand \/ LoggerClose

InitLogger ==
    /\ runner_yaml = NoMacros
    /\ continue_on_error = FALSE
    /\ logger \in { LogTo(FALSE, verbose, target) :
                       verbose \in BOOLEAN,
                       target \in {"none", "writable", "unwritable"} }
    /\ args = Args("list", NoName)
    /\ source = "ok"
    /\ supplied = FALSE
    /\ executed_macros = {}
    /\ file_handle = "none"
    /\ log_file \in PriorLogs
    /\ Fresh

SpecLogger == InitLogger /\ [][NextLogger]_vars

(***************************************************************************)
(* load_macros on its own: a document that is absent, unreadable, not      *)
(* YAML, empty, or has any of the roots below.  Here `loaded` is what the  *)
(* call gave: the value returned or the exception raised.                  *)
(***************************************************************************)
DocKeys == {"macros", "a"}

DocValues ==
    { YNull, YSeq, YStr, YMap(<<>>), YMap([k \in {"a"} |-> YSeq]),
      YMap([k \in {"macros"} |-> YSeq]) }

DocRoots ==
    { YNull, YSeq, YStr }
    \cup { YMap(f) : f \in UNION { [K -> DocValues] : K \in SUBSET DocKeys } }

Documents ==
    { Doc(st, YNull) : st \in {"missing", "unreadable", "invalid"} }
    \cup { Doc("ok", r) : r \in DocRoots }

NotLoaded == Raises("not called")

LoadMacros ==
    /\ run = 0
    /\ status = "idle"
    /\ document.state # "none"
    /\ run' = 1
    /\ loaded' = load_macros(document)
    /\ UNCHANGED <<config, environ, frames, executed_macros, calls, events,
                   status, exit_code, precall, file_handle, log_file>>

NextLoad == LoadMacros

InitLoad ==
    /\ document \in Documents
    /\ loaded = NotLoaded
    /\ runner_yaml = NoMacros
    /\ continue_on_error = FALSE
    /\ logger = Log(FALSE, FALSE)
    /\ args = Args("list", NoName)
    /\ source = "ok"
    /\ supplied = FALSE
    /\ executed_macros = {}
    /\ NoLogFile
    /\ environ = Ambient
    /\ frames = <<>> /\ calls = <<>> /\ events = <<>>
    /\ status = "idle" /\ exit_code = 0 /\ precall = {}
    /\ run = 0

SpecLoad == InitLoad /\ [][NextLoad]_vars

(***************************************************************************)
(* Definitions whose env mapping has the empty string among its keys, in   *)
(* the invoked macro or in a macro it calls.                               *)
(***************************************************************************)
EmptyKey == ""

EmptyKeyEnvs == { [k \in K |-> "v"] : K \in { {EmptyKey}, {EmptyKey, "X"} } }

EmptyKeyMappings ==
    { Mapping(DictEnvDef(<<Lit("c1"), Call("b"), Lit("c2")>>, ea),
              DictEnvDef(<<Lit("c2")>>, eb),
              ListDef(<<>>)) :
        ea \in EmptyKeyEnvs \cup {EmptyEnv}, eb \in EmptyKeyEnvs }

InitEmptyKey ==
    /\ runner_yaml \in EmptyKeyMappings
    /\ continue_on_error \in BOOLEAN
    /\ logger \in { Log(dry, FALSE) : dry \in BOOLEAN }
    /\ args = Args("run", Top)
    /\ source = "ok"
    /\ supplied = FALSE
    /\ executed_macros = {}
    /\ NoLogFile
    /\ Idle
    /\ run = MaxRuns - 1

SpecEmptyKey == InitEmptyKey /\ [][Next]_vars

\* Environment scoping on its own: the chains and siblings with overrides
InitScope ==
    /\ runner_yaml \in EnvMappings
    /\ continue_on_error \in BOOLEAN
    /\ logger \in { Log(dry, FALSE) : dry \in BOOLEAN }
    /\ args = Args("run", Top)
    /\ source = "ok"
    /\ supplied = FALSE
    /\ executed_macros = {}
    /\ NoLogFile
    /\ Idle
    /\ run = MaxRuns - 1

SpecScope == InitScope /\ [][Next]_vars

\* Steps of every kind the YAML loader can deliver, in definitions that are
\* otherwise well formed.
StepKindMappings ==
    { Mapping(ListDef(<<MapStep("{k: v}"), CallWithKeys("b"), IntStep("5"), Lit("c1")>>),
              DictDef(<<NullStep("None"), Call("c"), SeqStep("[c2]")>>),
              ListDef(<<MapStep("{}")>>)),
      Mapping(DictDef(<<CallWithKeys(Missing), SeqStep("[]"), Call("b")>>),
              ListDef(<<IntStep("0"), CallWithKeys("c")>>),
              DictDef(<<NullStep("None"), Lit("c2")>>)) }

InitSteps ==
    /\ runner_yaml \in StepKindMappings
    /\ continue_on_error \in BOOLEAN
    /\ logger \in { Log(dry, FALSE) : dry \in BOOLEAN }
    /\ args = Args("run", Top)
    /\ source = "ok"
    /\ supplied = FALSE
    /\ executed_macros = {}
    /\ NoLogFile
    /\ Idle
    /\ run = MaxRuns - 1

SpecSteps == InitSteps /\ [][Next]_vars

\* Validation: every combination of the properties validate_macro_definition
\* looks at, several faults at once included, in a definition that is
\* invoked directly or called between two commands.
RawBodies == { <<>>, <<Lit("c1")>>, <<Lit("c1"), Call("c")>> }

RawCommandParts ==
    { [has |-> FALSE, is_list |-> FALSE, cmds |-> <<>>],
      [has |-> TRUE, is_list |-> FALSE, cmds |-> <<>>] }
    \cup { [has |-> TRUE, is_list |-> TRUE, cmds |-> b] : b \in RawBodies }

RawEnvParts ==
    { [has |-> FALSE, is_dict |-> FALSE, env |-> EmptyEnv, nonstr |-> {}],
      [has |-> TRUE, is_dict |-> FALSE, env |-> EmptyEnv, nonstr |-> {}] }
    \cup UNION { { [has |-> TRUE, is_dict |-> TRUE, env |-> Overrides("v", K), nonstr |-> bad] :
                     bad \in SUBSET K } : K \in SUBSET EnvKeys }

RawDefs ==
    { ScalarDef }
    \cup { ListDef(b) : b \in RawBodies }
    \cup { Def("dict", c.has, c.is_list, c.cmds, e.has, e.is_dict, e.env, e.nonstr) :
             c \in RawCommandParts, e \in RawEnvParts }

RawMappings ==
    { Mapping(d, ListDef(<<>>), ListDef(<<Lit("c2")>>)) : d \in RawDefs }
    \cup
    { Mapping(ListDef(<<Lit("c1"), Call("b"), Lit("c2")>>), d, ListDef(<<Lit("c2")>>)) :
        d \in RawDefs }

RawConfigs ==
    { Cfg(m, coe, Log(dry, FALSE)) : m \in RawMappings, coe \in BOOLEAN, dry \in BOOLEAN }

InitValidate ==
    /\ \E cfg \in RawConfigs :
        /\ runner_yaml = cfg.macros
        /\ continue_on_error = cfg.coe
        /\ logger = cfg.logger
    /\ args = Args("run", Top)
    /\ source = "ok"
    /\ supplied = FALSE
    /\ executed_macros = {}
    /\ NoLogFile
    /\ Fresh

SpecValidate == InitValidate /\ [][Next]_vars

(***************************************************************************)
(* Vocabulary of the properties.  These read the definition mapping and    *)
(* the observations (calls, events) directly.                              *)
(***************************************************************************)
Terminal == status \in {"returned", "exited"}

LastEvent == events[Len(events)]

CallCmds == [j \in 1..Len(calls) |-> calls[j].cmd]

IsPrefix(p, q) == Len(p) <= Len(q) /\ \A j \in 1..Len(p) : p[j] = q[j]

AllWellFormed == \A n \in DOMAIN runner_yaml : WellFormed(runner_yaml[n])

AllCalledExist ==
    \A n \in CallClosure(runner_yaml, {Top}) : Mentions(runner_yaml, n) \subseteq DOMAIN runner_yaml

CommandsSucceeded ==
    \A j \in 1..Len(calls) : calls[j].out.kind = "exit" /\ calls[j].out.code = 0

\* The pre-order expansion of macro n: its literal commands in order, each
\* call step replaced by the expansion of the called macro (nothing for an
\* undefined one).  depth bounds the nesting; an acyclic mapping nests at
\* most Cardinality(DOMAIN m) deep.
RECURSIVE Expansion(_, _, _)
RECURSIVE ExpandFrom(_, _, _, _)
ExpandFrom(m, steps, j, depth) ==
    IF j > Len(steps) THEN <<>>
    ELSE (IF steps[j].kind = "call"
          THEN (IF steps[j].text \in DOMAIN m
                THEN Expansion(m, steps[j].text, depth - 1) ELSE <<>>)
          ELSE <<steps[j].text>>)
         \o ExpandFrom(m, steps, j + 1, depth)
Expansion(m, n, depth) ==
    IF depth = 0 THEN <<>> ELSE ExpandFrom(m, m[n].commands, 1, depth)

PreOrder == Expansion(runner_yaml, Top, Cardinality(DOMAIN runner_yaml))

(***************************************************************************)
(* C1.  Original statement: whenever a cycle of calls is reachable from    *)
(* the invoked macro, all definitions are valid and every command run      *)
(* succeeded, a finished run has ended with SystemExit(1) reporting the    *)
(* circular call, whatever continue_on_error is.                           *)
(***************************************************************************)
CycleCase ==
    /\ Terminal
    /\ HasReachableCycle(runner_yaml, Top)
    /\ AllWellFormed
    /\ CommandsSucceeded

\* C1, original statement: a finished run of the cycle case always ended
\* with SystemExit(1) and the circular-call error as its last report.
C1_CycleAlwaysReported ==
    CycleCase => (status = "exited" /\ exit_code = 1 /\ LastEvent.what = "circular")

\* C1 as amended: such a run always ends with SystemExit(1) and never returns
\* normally; the error is the circular-call error, except that with
\* continue_on_error = false a call to an undefined macro met before the
\* cycle closes ends the run first, with the macro-not-found error.
C1_CycleIsFatal ==
    CycleCase =>
        /\ status = "exited"
        /\ exit_code = 1
        /\ \/ LastEvent.what = "circular"
           \/ LastEvent.what = "not_found" /\ ~continue_on_error

\* a three-macro cycle a -> b -> c -> a detected under continue-on-error
C1_Witness ==
    /\ CycleCase
    /\ continue_on_error
    /\ LastEvent.what = "circular"
    /\ Len(LastEvent.arg) = 4

(***************************************************************************)
(* C2.  When a circular call is reported, the chain is the macros being    *)
(* expanded in the order they were entered, followed by the re-entered     *)
(* macro.                                                                  *)
(***************************************************************************)
\* the macros started and not completed, in the order of their start events
RECURSIVE OpenAfter(_, _)
OpenAfter(evs, n) ==
    IF n = 0 THEN <<>>
    ELSE LET before == OpenAfter(evs, n - 1) IN
         IF evs[n].what = "executing" THEN Append(before, evs[n].arg[1])
         ELSE IF evs[n].what = "completed" THEN SubSeq(before, 1, Len(before) - 1)
         ELSE before

CircularReported == status = "exited" /\ events # <<>> /\ LastEvent.what = "circular"

\* C2: the reported chain is the open macros in order of entry, then the
\* re-entered macro.
C2_ChainInCallOrder ==
    CircularReported =>
        LastEvent.arg = OpenAfter(events, Len(events)) \o <<events[Len(events) - 1].arg[1]>>

(***************************************************************************)
(* C3.  In a non-dry run over an acyclic mapping of valid definitions in   *)
(* which every called macro exists, as long as every command exits 0 the   *)
(* commands handed to the executor are a prefix of the pre-order           *)
(* expansion of the invoked macro, the run never exits, and when it has    *)
(* returned they are the whole expansion.                                  *)
(***************************************************************************)
C3_PreOrderExecution ==
    ( /\ run > 0
      /\ AllWellFormed
      /\ ~HasReachableCycle(runner_yaml, Top)
      /\ AllCalledExist
      /\ ~logger.dry_run
      /\ CommandsSucceeded )
    => /\ status # "exited"
       /\ IsPrefix(CallCmds, PreOrder)
       /\ status = "returned" => CallCmds = PreOrder

\* a caller's command run after the called macro's commands and a nested
\* call, the whole expansion executed
C3_Witness ==
    /\ status = "returned"
    /\ CommandsSucceeded
    /\ ~HasReachableCycle(runner_yaml, Top)
    /\ AllCalledExist
    /\ Len(calls) >= 4
    /\ \E j \in 2..Len(calls) :
          Len(calls[j - 1].stack) = 3 /\ Len(calls[j].stack) < 3

(***************************************************************************)
(* C4.  With continue_on_error = false a command that exits non-zero is    *)
(* the last thing the run does: it is the last executor invocation, the    *)
(* run has exited with the command's code, every activation is gone and    *)
(* after the command's record only its failure is reported.                *)
(***************************************************************************)
LastRecordAt ==
    CHOOSE p \in 1..Len(events) :
        /\ events[p].what = "log_command"
        /\ \A q \in (p + 1)..Len(events) : events[q].what # "log_command"

\* C4: with continue_on_error = false nothing is executed, expanded or
\* completed after a command that exited non-zero.
C4_StopAtFailingCommand ==
    ~continue_on_error =>
        \A j \in 1..Len(calls) :
            (calls[j].out.kind = "exit" /\ calls[j].out.code # 0) =>
                /\ j = Len(calls)
                /\ status = "exited"
                /\ exit_code = calls[j].out.code
                /\ frames = <<>>
                /\ \A q \in (LastRecordAt + 1)..Len(events) :
                      events[q].what \in {"output", "errors", "failed", "stopping"}

\* the failing command belongs to a called macro whose callers had steps left
C4_Witness ==
    /\ ~continue_on_error
    /\ status = "exited"
    /\ exit_code = 2
    /\ Len(calls) >= 2
    /\ Len(calls[Len(calls)].stack) >= 2
    /\ Len(PreOrder) > Len(calls)

(***************************************************************************)
(* C5.  Original statement: with continue_on_error = true, in an acyclic   *)
(* mapping of valid definitions, no failing command, raising command or    *)
(* call to an undefined macro ends the run, the commands handed to the     *)
(* executor are a prefix of the pre-order expansion, and once the run has  *)
(* returned they are the whole expansion.                                  *)
(***************************************************************************)
ContinueCase ==
    /\ run > 0
    /\ continue_on_error
    /\ AllWellFormed
    /\ ~HasReachableCycle(runner_yaml, Top)

OwnOverrides(n) ==
    LET d == runner_yaml[n] IN
    IF d.kind = "dict" /\ d.has_env THEN d.env ELSE EmptyEnv

Overlay(e, o) ==
    [k \in (DOMAIN e) \cup (DOMAIN o) |-> IF k \in DOMAIN o THEN o[k] ELSE e[k]]

RECURSIVE Layered(_, _)
Layered(stack, n) ==
    IF n = 0 THEN Ambient ELSE Overlay(Layered(stack, n - 1), OwnOverrides(stack[n]))

Issuer(c) == c.stack[Len(c.stack)]

\* C6: every command runs with the environment layered along its call chain.
C6_NestedEnvInheritsCaller ==
    \A j \in 1..Len(calls) : calls[j].env = Layered(calls[j].stack, Len(calls[j].stack))

(***************************************************************************)
(* C7.  A command receives, for every key its own macro overrides, that    *)
(* macro's value (so a called macro's commands get the called macro's      *)
(* value and the caller's commands, before and after the call, the         *)
(* caller's); a key overridden by no macro on the call chain has the       *)
(* process environment's value, or is absent when the process has none.    *)
(***************************************************************************)
C7_OwnOverrideWins ==
    \A j \in 1..Len(calls) :
        LET c == calls[j]
            chain == { c.stack[h] : h \in 1..Len(c.stack) }
        IN
        /\ \A k \in DOMAIN OwnOverrides(Issuer(c)) :
              k \in DOMAIN c.env /\ c.env[k] = OwnOverrides(Issuer(c))[k]
        /\ \A k \in EnvKeys :
              (\A n \in chain : k \notin DOMAIN OwnOverrides(n)) =>
                  IF k \in DOMAIN Ambient
                  THEN k \in DOMAIN c.env /\ c.env[k] = Ambient[k]
                  ELSE k \notin DOMAIN c.env

\* X overridden by a and by b: b's command sees b's value, a's command
\* after the call sees a's; Y is overridden by nobody on the chain
C7_Witness ==
    \E i, j \in 1..Len(calls) :
        /\ i < j
        /\ calls[i].stack = <<"a", "b">>
        /\ calls[j].stack = <<"a">>
        /\ "X" \in DOMAIN OwnOverrides("a") /\ "X" \in DOMAIN OwnOverrides("b")
        /\ calls[i].env["X"] = "b" /\ calls[j].env["X"] = "a"
        /\ "Y" \notin DOMAIN OwnOverrides("a") \cup DOMAIN OwnOverrides("b")

(***************************************************************************)
(* C8.  No command's environment holds an override declared by a macro     *)
(* that is not on the command's call chain (a sibling called earlier, a    *)
(* macro that was called and has returned, a macro of an earlier run),     *)
(* unless the command's own macro declares that key.                       *)
(***************************************************************************)
C8_OverridesStayInBranch ==
    \A j \in 1..Len(calls) :
        LET c == calls[j]
            chain == { c.stack[h] : h \in 1..Len(c.stack) }
        IN
        \A n \in (DOMAIN runner_yaml) \ chain :
            \A k \in (DOMAIN OwnOverrides(n)) \ DOMAIN OwnOverrides(Issuer(c)) :
                ~(k \in DOMAIN c.env /\ c.env[k] = OwnOverrides(n)[k])

\* in a second run: b overrode Y and has returned; its sibling c and the
\* caller a, neither declaring Y, then ran commands without Y
C8_Witness ==
    /\ run = 2
    /\ \E h, i, j \in 1..Len(calls) :
        /\ h < i /\ i < j
        /\ calls[h].stack = <<"a", "b">>
        /\ calls[i].stack = <<"a", "c">>
        /\ calls[j].stack = <<"a">>
        /\ "Y" \in DOMAIN OwnOverrides("b")
        /\ "Y" \notin DOMAIN OwnOverrides("a") \cup DOMAIN OwnOverrides("c")
        /\ "Y" \notin DOMAIN calls[i].env
        /\ "Y" \notin DOMAIN calls[j].env

(***************************************************************************)
(* C9.  In dry-run mode the executor is never invoked and no command       *)
(* record is written; every literal step is reported as running and then   *)
(* as would-execute, no failure of a command is ever reported, the run     *)
(* exits only for a cycle, a malformed definition or an undefined macro,   *)
(* and over an acyclic mapping of valid definitions whose called macros    *)
(* exist (or under continue_on_error) the would-execute reports are the    *)
(* pre-order expansion.                                                    *)
(***************************************************************************)
DryReports ==
    LET sel == SelectSeq(events, LAMBDA e : e.what = "dry_run") IN
    [j \in 1..Len(sel) |-> sel[j].arg[1]]

C10_InvalidDefinitionFatal ==
    /\ \A p \in 1..Len(events) :
          /\ events[p].what = "invalid" =>
                /\ p = Len(events)
                /\ status = "exited" /\ exit_code = 1 /\ frames = <<>>
          /\ (events[p].what = "executing" /\ ~WellFormed(runner_yaml[events[p].arg[1]])) =>
                /\ p < Len(events)
                /\ events[p + 1].what = "invalid"
                /\ events[p + 1].arg[1] = events[p].arg[1]
    /\ \A j \in 1..Len(frames) : WellFormed(runner_yaml[frames[j].name])
    /\ \A j \in 1..Len(calls) : WellFormed(runner_yaml[Issuer(calls[j])])

\* under continue_on_error a called macro with a malformed env and a
\* command of its own ended the run after the caller's first command
C10_Witness ==
    /\ continue_on_error
    /\ status = "exited"
    /\ LastEvent.what = "invalid"
    /\ LastEvent.arg[1] = "b"
    /\ runner_yaml["b"].commands # <<>>
    /\ Len(calls) = 1

(***************************************************************************)
(* C11.  A call step that names a macro absent from the definitions: with  *)
(* continue_on_error false the "not found" error is the last thing that    *)
(* happens, the run ends with exit code 1 and no later step is processed;  *)
(* with continue_on_error true a warning follows the error, nothing is     *)
(* expanded or executed for the call, and the calling macro moves to its   *)
(* next step.                                                              *)
(***************************************************************************)
AtUndefinedCall ==
    /\ status = "running"
    /\ frames # <<>>
    /\ frames[Len(frames)].i <= Len(frames[Len(frames)].commands)
    /\ frames[Len(frames)].commands[frames[Len(frames)].i].kind = "call"
    /\ frames[Len(frames)].commands[frames[Len(frames)].i].text \notin DOMAIN runner_yaml

UndefinedCallReports ==
    \A p \in 1..Len(events) :
        /\ (events[p].what = "calling" /\ events[p].arg[1] \notin DOMAIN runner_yaml) =>
              /\ p < Len(events)
              /\ events[p + 1].what = "not_found"
              /\ events[p + 1].level = "error"
              /\ events[p + 1].arg = events[p].arg
        /\ events[p].what = "not_found" =>
              IF continue_on_error
              THEN /\ p < Len(events)
                   /\ events[p + 1].what = "skip_missing"
                   /\ events[p + 1].level = "warn"
                   /\ events[p + 1].arg = events[p].arg
                   /\ p + 1 < Len(events) =>
                         events[p + 2].what \in {"running", "calling", "completed"}
              ELSE /\ p = Len(events)
                   /\ status = "exited"
                   /\ exit_code = 1
                   /\ frames = <<>>

UndefinedCallStep ==
    AtUndefinedCall =>
        /\ calls' = calls
        /\ executed_macros' = executed_macros
        /\ IF continue_on_error
           THEN /\ status' = "running"
                /\ frames' = [frames EXCEPT ![Len(frames)].i = @ + 1]
           ELSE /\ status' = "exited"
                /\ exit_code' = 1
                /\ frames' = <<>>

C11_UndefinedMacroCall == []UndefinedCallReports /\ [][UndefinedCallStep]_vars

\* under continue_on_error a call to an undefined macro was skipped and the
\* calling macro then ran its next command
C11_Witness ==
    /\ continue_on_error
    /\ status = "returned"
    /\ \E p \in 1..(Len(events) - 2) :
          /\ events[p].what = "skip_missing"
          /\ events[p + 1].what = "running"

(***************************************************************************)
(* C12.  When the executor raises instead of returning an exit status the  *)
(* failure is recorded and reported with the exception's detail, and the   *)
(* run branches as for a non-zero exit status: with continue_on_error      *)
(* false it ends there with a fatal exit, with continue_on_error true a    *)
(* warning follows and the activation moves to its next step.              *)
(***************************************************************************)
Raised(c) == c.out.kind = "raise"

NonZero(c) == c.out.kind = "exit" /\ c.out.code # 0

RaisedCalls == SelectSeq(calls, Raised)

ExceptionEvents == SelectSeq(events, LAMBDA e : e.what = "exception")

ExceptionReports ==
    /\ Len(ExceptionEvents) = Len(RaisedCalls)
    /\ \A j \in 1..Len(RaisedCalls) :
          ExceptionEvents[j].arg = <<RaisedCalls[j].cmd, RaisedCalls[j].out.stderr>>
    /\ \A p \in 1..Len(events) :
          events[p].what = "exception" =>
              /\ events[p].level = "error"
              /\ p > 1
              /\ events[p - 1].what = "log_command"
              /\ events[p - 1].arg = <<events[p].arg[1], "", events[p].arg[2]>>
              /\ IF continue_on_error
                 THEN /\ p < Len(events)
                      /\ events[p + 1].what = "continuing_exception"
                      /\ events[p + 1].level = "warn"
                      /\ p + 1 < Len(events) =>
                            events[p + 2].what \in {"running", "calling", "completed"}
                 ELSE /\ p = Len(events)
                      /\ status = "exited"
                      /\ exit_code # 0
                      /\ frames = <<>>

\* the step taken when the executor was invoked and did not succeed
FailureStep ==
    (Len(calls') = Len(calls) + 1
        /\ (Raised(calls'[Len(calls')]) \/ NonZero(calls'[Len(calls')]))) =>
        /\ executed_macros' = executed_macros
        /\ IF continue_on_error
           THEN /\ status' = "running"
                /\ frames' = [frames EXCEPT ![Len(frames)].i = @ + 1]
           ELSE /\ status' = "exited"
                /\ exit_code' # 0
                /\ frames' = <<>>

C12_ExecutorException == []ExceptionReports /\ [][FailureStep]_vars

\* under continue_on_error the executor raised on one command and the next
\* command of the same macro ran and succeeded
C12_Witness ==
    /\ continue_on_error
    /\ status = "returned"
    /\ Len(calls) >= 2
    /\ Raised(calls[1])
    /\ calls[2].out.kind = "exit" /\ calls[2].out.code = 0
    /\ calls[2].stack = calls[1].stack

(***************************************************************************)
(* C13.  The exit code of a fatal termination is never 0: it is the        *)
(* failing command's own return code when a command failed with            *)
(* continue_on_error false, and 1 for a validation error, a circular       *)
(* call, a call to an undefined macro and an executor exception.           *)
(***************************************************************************)
C13_ExitCodes ==
    status = "exited" =>
        /\ exit_code # 0
        /\ events # <<>>
        /\ LastEvent.what \in {"stopping", "invalid", "circular", "not_found", "exception"}
        /\ LastEvent.what = "stopping" =>
              /\ ~continue_on_error
              /\ calls # <<>>
              /\ NonZero(calls[Len(calls)])
              /\ exit_code = calls[Len(calls)].out.code
        /\ LastEvent.what \in {"invalid", "circular", "not_found", "exception"} =>
              exit_code = 1
        /\ LastEvent.what = "exception" => calls # <<>> /\ Raised(calls[Len(calls)])

\* a command of a called macro failed with a return code other than 1 and
\* the run ended with that code
C13_Witness ==
    /\ status = "exited"
    /\ LastEvent.what = "stopping"
    /\ Len(calls[Len(calls)].stack) = 2
    /\ calls[Len(calls)].out.code > 1
    /\ exit_code = calls[Len(calls)].out.code

(***************************************************************************)
(* C14.  At every instant of a run no macro name is in the call stack      *)
(* more than once, and the call stack holds exactly the names of the       *)
(* macros whose expansion has started and has not finished.                *)
(***************************************************************************)
\* started and not finished, by the start and completion reports
Unfinished == OpenAfter(events, Len(events))

Range(q) == { q[j] : j \in 1..Len(q) }

C14_CallStackIsOpenMacros ==
    run > 0 =>
        /\ \A j, k \in 1..Len(Unfinished) : Unfinished[j] = Unfinished[k] => j = k
        /\ executed_macros = Range(Unfinished)
        /\ status = "running" =>
              /\ Unfinished = [j \in 1..Len(frames) |-> frames[j].name]
              /\ \A j \in 1..Len(calls) : Range(calls[j].stack) \subseteq
                    Range(Unfinished) \cup { events[p].arg[1] :
                        p \in { q \in 1..Len(events) : events[q].what = "completed" } }
        /\ status = "returned" => executed_macros = {}

\* one called macro has completed, and the call stack holds the invoked
\* macro and a second called macro that is being expanded
C14_Witness ==
    /\ status = "running"
    /\ \E p \in 1..Len(events) : events[p].what = "completed"
    /\ Len(Unfinished) = 2
    /\ executed_macros = {Unfinished[1], Unfinished[2]}

(***************************************************************************)
(* C15.  For a call stack supplied by the caller that does not hold the    *)
(* invoked macro's name: whenever the invocation returns normally the      *)
(* call stack holds what it held before the call, also after failures and  *)
(* skipped calls under continue_on_error and after nested calls.           *)
(***************************************************************************)
C15_CallStackRestored ==
    (supplied /\ status = "returned" /\ args.macro_name \notin precall) =>
        executed_macros = precall

\* the caller's stack held a name of the caller's own; under continue_on_error the run
\* skipped an undefined macro, went through a failed command inside a
\* called macro, and returned
C15_Witness ==
    /\ supplied
    /\ status = "returned"
    /\ continue_on_error
    /\ precall = {Outer}
    /\ \E p \in 1..Len(events) : events[p].what = "skip_missing"
    /\ \E j \in 1..Len(calls) : Len(calls[j].stack) = 2 /\ ~(calls[j].out.kind = "exit" /\ calls[j].out.code = 0)

(***************************************************************************)
(* C16.  Two successive top-level invocations that leave the call stack    *)
(* to its default are independent: the second starts with an empty call    *)
(* stack whatever the first did, a circular call is reported in it only    *)
(* for a macro it has itself started and not finished, never when no       *)
(* cycle of calls can be reached, and a cycle it does run into is still    *)
(* detected.                                                               *)
(***************************************************************************)
C16_SuccessiveRunsIndependent ==
    (~supplied /\ run >= 2) =>
        /\ precall = {}
        /\ executed_macros = Range(Unfinished)
        /\ CircularReported =>
              /\ LastEvent.arg[Len(LastEvent.arg)] \in Range(Unfinished)
              /\ HasReachableCycle(runner_yaml, args.macro_name)
        /\ (CycleCase /\ AllCalledExist) => CircularReported

\* the second of two invocations ran into a three-macro cycle and reported it
C16_Witness ==
    /\ ~supplied
    /\ run = 2
    /\ CircularReported
    /\ Len(Unfinished) = 3

(***************************************************************************)
(* C17.  A definition whose command sequence is empty, in either shape,    *)
(* is valid: its expansion invokes the executor zero times, its            *)
(* completion is reported right after its start, and the caller goes on    *)
(* with its next step.                                                     *)
(***************************************************************************)
IsEmptyDef(d) == WellFormed(d) /\ d.commands = <<>>

C17_EmptyMacroCompletes ==
    /\ \A p \in 1..Len(events) :
          (events[p].what = "executing" /\ IsEmptyDef(runner_yaml[events[p].arg[1]])) =>
              IF p = Len(events)
              THEN status = "running" /\ frames[Len(frames)].name = events[p].arg[1]
              ELSE /\ events[p + 1].what = "completed"
                   /\ events[p + 1].level = "info"
                   /\ events[p + 1].arg = events[p].arg
                   /\ p + 1 < Len(events) =>
                         events[p + 2].what \in {"running", "calling", "completed"}
    /\ \A j \in 1..Len(calls) :
          ~IsEmptyDef(runner_yaml[calls[j].stack[Len(calls[j].stack)]])
    /\ (run > 0 /\ Terminal /\ IsEmptyDef(runner_yaml[args.macro_name])) =>
          /\ status = "returned"
          /\ calls = <<>>
          /\ Len(events) = 2

\* a called macro written as a mapping with no commands completed without
\* an executor call and its caller ran the command after the call
C17_Witness ==
    /\ status = "returned"
    /\ runner_yaml["b"].kind = "dict"
    /\ runner_yaml["b"].commands = <<>>
    /\ \E p \in 1..(Len(events) - 2) :
          /\ events[p].what = "executing" /\ events[p].arg[1] = "b"
          /\ events[p + 1].what = "completed"
          /\ events[p + 2].what = "running"
    /\ Len(calls) = 2
    /\ \A j \in 1..Len(calls) : calls[j].stack = <<"a">>

(***************************************************************************)
(* C18.  A definition is accepted exactly when it is a sequence, or a      *)
(* mapping whose 'commands' is a sequence and whose 'env', if present, is  *)
(* a mapping with string values only.  The checks are made in the order    *)
(* shape, 'commands' missing, type of 'commands', type of 'env', types of  *)
(* the env values; the error names the first check that fails and, for a   *)
(* value that is not a string, the key of that value.                      *)
(***************************************************************************)
Accepted(d) ==
    \/ d.kind = "list"
    \/ /\ d.kind = "dict"
       /\ d.has_commands /\ d.commands_is_list
       /\ ~d.has_env \/ (d.env_is_dict /\ d.nonstr = {})

FirstFailedCheck(d) ==
    IF d.kind \notin {"list", "dict"} THEN "type"
    ELSE IF ~d.has_commands THEN "missing_commands"
    ELSE IF ~d.commands_is_list THEN "commands_type"
    ELSE IF ~d.env_is_dict THEN "env_type"
    ELSE "env_value"

\* key k is written before key l
WrittenBefore(k, l) ==
    \E i, j \in 1..Len(EnvKeyOrder) : i < j /\ EnvKeyOrder[i] = k /\ EnvKeyOrder[j] = l

C18_ValidationOrder ==
    \A p \in 1..Len(events) :
        events[p].what = "executing" =>
            LET d == runner_yaml[events[p].arg[1]] IN
            IF Accepted(d)
            THEN p < Len(events) => events[p + 1].what # "invalid"
            ELSE /\ p < Len(events)
                 /\ events[p + 1].what = "invalid"
                 /\ events[p + 1].arg[1] = events[p].arg[1]
                 /\ events[p + 1].arg[2] = FirstFailedCheck(d)
                 /\ IF FirstFailedCheck(d) = "env_value"
                    THEN /\ Len(events[p + 1].arg) = 3
                         /\ events[p + 1].arg[3] \in d.nonstr
                         /\ \A k \in d.nonstr : ~WrittenBefore(k, events[p + 1].arg[3])
                    ELSE Len(events[p + 1].arg) = 2

\* a called definition with no 'commands' and an env that is not a mapping
\* was rejected for the missing 'commands'
C18_Witness ==
    /\ status = "exited"
    /\ LastEvent.what = "invalid"
    /\ LastEvent.arg = <<"b", "missing_commands">>
    /\ runner_yaml["b"].has_env
    /\ ~runner_yaml["b"].env_is_dict
    /\ Len(calls) = 1

(***************************************************************************)
(* C19.  A definition written as a bare sequence L, as a mapping with      *)
(* only 'commands': L, and as a mapping with 'commands': L and an empty    *)
(* 'env' are equivalent: wherever the run stands, starting the macro in    *)
(* any of the three shapes gives the same verdict, the same steps, the     *)
(* same environment for its commands, the same reports and the same call   *)
(* stack, and the commands it issued saw the process environment as it     *)
(* is.                                                                     *)
(***************************************************************************)
NoOverrides == [k \in {} |-> ""]

PlainShapes(L) ==
    { [kind |-> "list", has_commands |-> FALSE, commands_is_list |-> FALSE, commands |-> L,
       has_env |-> FALSE, env_is_dict |-> FALSE, env |-> NoOverrides, nonstr |-> {}],
      [kind |-> "dict", has_commands |-> TRUE, commands_is_list |-> TRUE, commands |-> L,
       has_env |-> FALSE, env_is_dict |-> FALSE, env |-> NoOverrides, nonstr |-> {}],
      [kind |-> "dict", has_commands |-> TRUE, commands_is_list |-> TRUE, commands |-> L,
       has_env |-> TRUE, env_is_dict |-> TRUE, env |-> NoOverrides, nonstr |-> {}] }

IsPlain(d) == d \in PlainShapes(d.commands)

C19_ShapesEquivalent ==
    /\ \A n \in DOMAIN runner_yaml :
          IsPlain(runner_yaml[n]) =>
              \A d \in PlainShapes(runner_yaml[n].commands) :
                  /\ EnvironAfterScope(environ, d) = EnvironAfterScope(environ, runner_yaml[n])
                  /\ \A order \in Orderings(executed_macros) :
                        Enter(n, d, executed_macros, order, environ)
                            = Enter(n, runner_yaml[n], executed_macros, order, environ)
    /\ \A j \in 1..Len(calls) :
          IsPlain(runner_yaml[calls[j].stack[Len(calls[j].stack)]]) =>
              calls[j].env = environ
    /\ \A j \in 1..Len(frames) :
          IsPlain(runner_yaml[frames[j].name]) =>
              /\ frames[j].commands = runner_yaml[frames[j].name].commands
              /\ frames[j].env = environ

\* a macro written with an empty env called one written with 'commands'
\* only; both ran their commands with the process environment and the run
\* completed
C19_Witness ==
    /\ status = "returned"
    /\ runner_yaml["a"].kind = "dict" /\ runner_yaml["a"].has_env
    /\ runner_yaml["a"].env = NoOverrides
    /\ runner_yaml["b"].kind = "dict" /\ ~runner_yaml["b"].has_env
    /\ Len(calls) = 3
    /\ calls[2].stack = <<"a", "b">>
    /\ \A j \in 1..Len(calls) : calls[j].env = environ

(***************************************************************************)
(* C20.  `run` given without a macro name ends with exit code 2 and        *)
(* starts no macro expansion.                                              *)
(***************************************************************************)
RunWithoutName == args.command = "run" /\ args.macro_name = NoName

NothingExpanded ==
    /\ calls = <<>>
    /\ frames = <<>>
    /\ \A p \in 1..Len(events) : events[p].what \notin {"executing", "calling", "running"}

C20_RunWithoutNameIsUsageError ==
    (RunWithoutName /\ run > 0) =>
        /\ status = "exited"
        /\ exit_code = 2
        /\ NothingExpanded

(***************************************************************************)
(* C21.  `run` for a name that is not a key of the loaded mapping, and     *)
(* `run` when runner.yaml is missing or cannot be parsed, end with exit    *)
(* code 1 without starting a macro expansion and without invoking the      *)
(* executor.                                                               *)
(***************************************************************************)
NameNotDefined ==
    /\ source = "ok"
    /\ args.macro_name # NoName
    /\ args.macro_name \notin DOMAIN runner_yaml

C21_NotFoundOrUnloadable ==
    (args.command = "run" /\ run > 0 /\ (source # "ok" \/ NameNotDefined)) =>
        /\ status = "exited"
        /\ exit_code = 1
        /\ NothingExpanded
        /\ executed_macros = {}
        /\ events # <<>>
        /\ LastEvent.level = "error"

\* `run z` over a runner.yaml that defines a, b and c ended with exit code 1
C21_Witness ==
    /\ args = [command |-> "run", macro_name |-> "z"]
    /\ source = "ok"
    /\ DOMAIN runner_yaml = {"a", "b", "c"}
    /\ status = "exited"
    /\ exit_code = 1
    /\ calls = <<>>

(***************************************************************************)
(* C22.  For every command the engine executes, the record appended to     *)
(* the log file is an EXECUTED line with the command text, then an OUTPUT  *)
(* line if and only if the captured stdout was not empty, then an ERROR    *)
(* line if and only if the captured stderr was not empty.                  *)
(***************************************************************************)
\* the lines written since this session's header
RECURSIVE SinceHeader(_)
SinceHeader(lines) ==
    IF lines = <<>> THEN <<>>
    ELSE IF \E j \in 2..Len(lines) : lines[j].tag = "header" THEN SinceHeader(Tail(lines))
    ELSE IF Head(lines).tag = "header" THEN Tail(lines) ELSE lines

IsRecordLine(l) == l.tag \in {"EXECUTED:", "OUTPUT:", "ERROR:"}

SessionRecords == SelectSeq(SinceHeader(log_file), IsRecordLine)

\* the record the statement describes for one executor invocation (for an
\* invocation that raised, the exception text stands for the error)
ClaimedRecord(c) ==
    <<[tag |-> "EXECUTED:", body |-> <<c.cmd>>]>>
    \o (IF c.out.stdout # "" THEN <<[tag |-> "OUTPUT:", body |-> <<c.out.stdout>>]>> ELSE <<>>)
    \o (IF c.out.stderr # "" THEN <<[tag |-> "ERROR:", body |-> <<c.out.stderr>>]>> ELSE <<>>)

RECURSIVE ClaimedRecords(_)
ClaimedRecords(cs) ==
    IF cs = <<>> THEN <<>> ELSE ClaimedRecord(Head(cs)) \o ClaimedRecords(Tail(cs))

LogFileInUse == status # "idle" /\ logger.log_file = "writable" /\ ~supplied

C22_RecordLines ==
    LogFileInUse => SessionRecords = ClaimedRecords(calls)

(***************************************************************************)
(* C23.  A circular-call error is raised only when the macro being         *)
(* entered is on the call chain at that moment.  A call to a defined       *)
(* macro that is not its own ancestor starts one expansion of it, so a     *)
(* macro called several times in sequence, or reached along two branches,  *)
(* is expanded once per call and no circular call is reported.             *)
(***************************************************************************)
EventsNamed(what, n) ==
    SelectSeq(events, LAMBDA e : e.what = what /\ e.arg[1] = n)

C23_CircularOnlyForAncestor ==
    /\ \A p \in 1..Len(events) :
          /\ (events[p].what = "calling" /\ events[p].arg[1] \in DOMAIN runner_yaml) =>
                /\ p < Len(events)
                /\ IF events[p].arg[1] \in Range(OpenAfter(events, p))
                   THEN events[p + 1].what = "circular"
                   ELSE /\ events[p + 1].what = "executing"
                        /\ events[p + 1].arg = events[p].arg
          /\ events[p].what = "circular" =>
                events[p].arg[Len(events[p].arg)] \in Range(OpenAfter(events, p))
    /\ ~HasReachableCycle(runner_yaml, args.macro_name) =>
          \A p \in 1..Len(events) : events[p].what # "circular"

\* a macro reached along two branches (a calls b and c, b calls c) was
\* expanded twice and the run completed
C23_Witness ==
    /\ status = "returned"
    /\ Len(EventsNamed("calling", "c")) = 2
    /\ Len(EventsNamed("executing", "c")) = 2
    /\ Len(EventsNamed("completed", "c")) = 2
    /\ Len(EventsNamed("calling", "b")) = 1
    /\ \A p \in 1..Len(events) : events[p].what # "circular"

(***************************************************************************)
(* C24.  Within one macro with n literal-command steps, the progress       *)
(* indicator shown for the k-th literal-command step, counted by position  *)
(* with macro-call steps left out, is k/n, also when a command string      *)
(* occurs more than once.                                                  *)
(***************************************************************************)
Depth(p) == Len(OpenAfter(events, p))

\* the start report of the expansion that event p belongs to
StartOf(p) ==
    CHOOSE q \in 1..p :
        /\ events[q].what = "executing"
        /\ Depth(q) = Depth(p)
        /\ \A h \in (q + 1)..p : ~(events[h].what = "executing" /\ Depth(h) = Depth(p))

\* how many literal-command steps of that expansion were announced up to p
Ordinal(p) ==
    Cardinality({ q \in StartOf(p)..p : events[q].what = "running" /\ Depth(q) = Depth(p) })

LiteralCount(d) ==
    Cardinality({ j \in 1..Len(d.commands) : d.commands[j].kind = "str" })

C24_ProgressByPosition ==
    \A p \in 1..Len(events) :
        events[p].what = "running" =>
            /\ events[p].index = Ordinal(p)
            /\ events[p].total =
                  LiteralCount(runner_yaml[OpenAfter(events, p)[Depth(p)]])

(***************************************************************************)
(* C25.  Start and completion reports are well nested.  A completion       *)
(* report closes the innermost open expansion, after every step of that    *)
(* macro has been announced and everything its calls started has been      *)
(* closed; every step announced belongs to the innermost open macro, so    *)
(* what follows a completion belongs to the caller.  A run that returns    *)
(* has closed every expansion exactly once; after a fatal termination the  *)
(* macros on the call stack have no completion report.                     *)
(***************************************************************************)
StepTexts(d, kind) ==
    { d.commands[j].text : j \in { h \in 1..Len(d.commands) : d.commands[h].kind = kind } }

StepsAnnounced(s, p) ==
    Cardinality({ q \in s..p : events[q].what \in {"running", "calling"}
                               /\ Depth(q) = Depth(s) })

C25_WellNested ==
    /\ \A p \in 1..Len(events) :
          /\ events[p].what = "completed" =>
                /\ p > 1
                /\ Depth(p - 1) > 0
                /\ OpenAfter(events, p - 1)[Depth(p - 1)] = events[p].arg[1]
                /\ StepsAnnounced(StartOf(p - 1), p)
                      = Len(runner_yaml[events[p].arg[1]].commands)
          /\ events[p].what \in {"running", "calling"} =>
                /\ Depth(p) > 0
                /\ events[p].arg[1] \in
                      StepTexts(runner_yaml[OpenAfter(events, p)[Depth(p)]],
                                IF events[p].what = "running" THEN "str" ELSE "call")
    /\ status = "returned" =>
          /\ Unfinished = <<>>
          /\ LastEvent.what = "completed"
          /\ \A n \in DOMAIN runner_yaml :
                Len(EventsNamed("executing", n)) = Len(EventsNamed("completed", n))
    /\ status = "exited" =>
          /\ LastEvent.what # "completed"
          /\ Range(Unfinished) = executed_macros
          /\ \A n \in executed_macros :
                Len(EventsNamed("executing", n)) = Len(EventsNamed("completed", n)) + 1

\* a returns after b, which it called between two commands, returned after
\* c, which b called after a command: three start reports, closed in the
\* reverse order
C25_Witness ==
    /\ status = "returned"
    /\ Len(events) >= 6
    /\ events[1].what = "executing" /\ events[1].arg = <<"a">>
    /\ \E p, q \in 1..Len(events) :
          /\ p < q
          /\ events[p].what = "completed" /\ events[p].arg = <<"c">>
          /\ events[q].what = "completed" /\ events[q].arg = <<"b">>
          /\ Depth(p - 1) = 3
          /\ \E r \in (q + 1)..Len(events) : events[r].what = "running"
    /\ LastEvent.arg = <<"a">>

(***************************************************************************)
(* C26.  A reachable cycle is detected only when the repeated macro is     *)
(* re-entered: in a non-dry run that reports a circular call, the          *)
(* commands handed to the executor are exactly, once each and in order,    *)
(* the literal commands that precede the cyclic call in pre-order; no      *)
(* literal command placed after a call step on the active call chain has   *)
(* been executed.                                                          *)
(***************************************************************************)
\* The pre-order walk of steps from position j with the macros in open
\* being expanded, cut at the first call to an open macro: the literal
\* commands met, and whether the walk was cut.  Calls to undefined macros
\* contribute nothing.
RECURSIVE WalkFrom(_, _, _, _)
WalkFrom(m, steps, j, open) ==
    IF j > Len(steps) THEN [cmds |-> <<>>, hit |-> FALSE]
    ELSE IF steps[j].kind = "str"
    THEN LET rest == WalkFrom(m, steps, j + 1, open) IN
         [cmds |-> <<steps[j].text>> \o rest.cmds, hit |-> rest.hit]
    ELSE IF steps[j].text \notin DOMAIN m THEN WalkFrom(m, steps, j + 1, open)
    ELSE IF steps[j].text \in open THEN [cmds |-> <<>>, hit |-> TRUE]
    ELSE LET sub == WalkFrom(m, m[steps[j].text].commands, 1, open \cup {steps[j].text}) IN
         IF sub.hit THEN sub
         ELSE LET rest == WalkFrom(m, steps, j + 1, open) IN
              [cmds |-> sub.cmds \o rest.cmds, hit |-> rest.hit]

WalkToCycle ==
    WalkFrom(runner_yaml, runner_yaml[args.macro_name].commands, 1, {args.macro_name})

C26_CycleDetectedAtReentry ==
    (~logger.dry_run /\ AllWellFormed /\ run > 0) =>
        /\ IsPrefix(CallCmds, WalkToCycle.cmds)
        /\ CircularReported =>
              /\ WalkToCycle.hit
              /\ CallCmds = WalkToCycle.cmds

\* in the cycle a -> b -> c -> a with a command before and after every call
\* the three commands before the calls ran, and none of those after them
C26_Witness ==
    /\ CircularReported
    /\ ~logger.dry_run
    /\ Len(Unfinished) = 3
    /\ Len(calls) = 3
    /\ \A j \in 1..3 : Len(calls[j].stack) = j
    /\ \A n \in DOMAIN runner_yaml : Len(runner_yaml[n].commands) = 3

(***************************************************************************)
(* C27: every macro-call lookup of a run resolves against the mapping      *)
(* loaded when the run started: each macro that is being expanded runs the *)
(* steps that mapping gives it, a called name is reported as not found     *)
(* only when that mapping lacks it, and no lookup fails for another        *)
(* reason, whatever happens to runner.yaml during the run.                 *)
(***************************************************************************)
ReportedMissing == { e.arg[1] : e \in { x \in Range(events) : x.what = "not_found" } }

C27_LookupsUseLoadedMapping ==
    status # "idle" =>
        /\ status # "crashed"
        /\ \A j \in 1..Len(frames) :
              /\ frames[j].name \in DOMAIN loaded
              /\ frames[j].commands = CommandsOf(loaded[frames[j].name])
        /\ ReportedMissing \cap DOMAIN loaded = {}

(***************************************************************************)
(* C28: a run over a finite mapping terminates, normally or fatally, for   *)
(* both values of continue_on_error and every outcome of every command,    *)
(* provided each executor invocation returns; and the call stack never     *)
(* holds more names than there are distinct macro names reachable from     *)
(* the invoked macro.                                                      *)
(***************************************************************************)
ReachableNames == CallClosure(runner_yaml, {Top})

StackBounded ==
    /\ Len(frames) <= Cardinality(ReachableNames)
    /\ Cardinality(executed_macros) <= Cardinality(ReachableNames)

C28_Terminates ==
    /\ []StackBounded
    /\ (status = "running") ~> (status \in {"returned", "exited"})

\* a three-macro cycle has been walked to its re-entry, past a failed
\* command, with every reachable name on the stack
C28_Witness ==
    /\ CircularReported
    /\ continue_on_error
    /\ Cardinality(ReachableNames) = 3
    /\ executed_macros = ReachableNames
    /\ \E j \in 1..Len(calls) : NonZero(calls[j]) \/ Raised(calls[j])

(***************************************************************************)
(* C29: with continue_on_error set, `run` of a defined macro over an       *)
(* acyclic mapping of valid definitions never exits: main returns with     *)
(* exit code 0 and the log file it opened is closed, whatever commands     *)
(* exited non-zero or raised and whatever called macros were missing.      *)
(***************************************************************************)
ContinuingRun ==
    /\ status # "idle"
    /\ continue_on_error
    /\ source = "ok"
    /\ args.command = "run"
    /\ args.macro_name \in DOMAIN runner_yaml
    /\ AllWellFormed
    /\ ~HasReachableCycle(runner_yaml, args.macro_name)

C29_ContinueOnErrorReturns ==
    ContinuingRun =>
        /\ status \in {"running", "returned"}
        /\ exit_code = 0
        /\ status = "returned" =>
              file_handle = (IF logger.log_file = "writable" THEN "closed" ELSE "none")

C29_Witness ==
    /\ ContinuingRun
    /\ status = "returned"
    /\ file_handle = "closed"
    /\ \E j \in 1..Len(calls) : NonZero(calls[j])
    /\ \E j \in 1..Len(calls) : Raised(calls[j])
    /\ \E e \in Range(events) : e.what = "skip_missing"

(***************************************************************************)
(* C30: every executor invocation produces exactly one log_command call,   *)
(* whether the command succeeded, exited non-zero or its execution raised; *)
(* the records are in the order of execution, in the calls and in the log  *)
(* file; a dry run produces none.                                          *)
(***************************************************************************)
RecordCalls == SelectSeq(events, LAMBDA e : e.level = "record")

ExecutedLines == SelectSeq(SessionRecords, LAMBDA l : l.tag = "EXECUTED:")

C30_OneRecordPerInvocation ==
    status # "idle" =>
        /\ Len(RecordCalls) = Len(calls)
        /\ \A j \in 1..Len(calls) : RecordCalls[j].arg[1] = calls[j].cmd
        /\ LogFileInUse =>
              ExecutedLines = [j \in 1..Len(calls) |->
                                 [tag |-> "EXECUTED:", body |-> <<calls[j].cmd>>]]
        /\ logger.dry_run => RecordCalls = <<>> /\ ExecutedLines = <<>>

C30_Witness ==
    /\ status = "returned"
    /\ LogFileInUse
    /\ Len(ExecutedLines) >= 3
    /\ \E j \in 1..Len(calls) : NonZero(calls[j])
    /\ \E j \in 1..Len(calls) : Raised(calls[j])
    /\ \E j \in 1..Len(calls) : calls[j].out.kind = "exit" /\ calls[j].out.code = 0
    /\ \E j \in 1..(Len(calls) - 1) : calls[j].cmd # calls[j + 1].cmd

(***************************************************************************)
(* C31: when the log directory cannot be created or the log file cannot be *)
(* opened, the Logger is still constructed, without a file handle; nothing *)
(* is written to the file, every later info, warn and error call prints to *)
(* the console, log_command prints its record when verbose is set, no call *)
(* raises, and the macro runs its normal course.                           *)
(***************************************************************************)
UnwritableLog == status # "idle" /\ logger.log_file = "unwritable" /\ ~supplied

Messages == SelectSeq(events, LAMBDA e : e.level # "record")

\* the run ends as the executor ends it: with the completion report of the
\* invoked macro, or with an error report before an exit
NormalCourse ==
    /\ status # "crashed"
    /\ Len(RecordCalls) = Len(calls)
    /\ (status = "returned" /\ args.command = "run") =>
          LastEvent = Ev("info", "completed", <<args.macro_name>>)
    /\ status = "exited" => LastEvent.level = "error"

FileLoggingDisabled == file_handle = "none" /\ log_file \in PriorLogs

C31_UnwritableLogDisabled ==
    UnwritableLog =>
        /\ FileLoggingDisabled
        /\ \A j \in 1..Len(Messages) : Len(ConsoleLines(Messages[j], logger.verbose)) = 1
        /\ \A j \in 1..Len(RecordCalls) :
              (ConsoleLines(RecordCalls[j], logger.verbose) # <<>>) <=> logger.verbose
        /\ NormalCourse

\* the statement as written: log_command prints whatever the verbosity
C31_EveryCallPrints ==
    UnwritableLog =>
        /\ FileLoggingDisabled
        /\ \A j \in 1..Len(events) : ConsoleLines(events[j], logger.verbose) # <<>>
        /\ NormalCourse

C31_Witness ==
    /\ UnwritableLog
    /\ status = "returned"
    /\ ~logger.verbose
    /\ Len(RecordCalls) >= 2
    /\ \E e \in Range(events) : e.level = "warn"
    /\ \E e \in Range(events) : e.level = "error"

(***************************************************************************)
(* C32: Logger.close is idempotent and final.  After the first close the   *)
(* file handle is absent and stays so through a second close; the file     *)
(* holds what it held at the first close, so no later call writes to it;   *)
(* no later call raises; every later info, warn and error call prints to   *)
(* the console, and a later log_command call prints when verbose is set.   *)
(***************************************************************************)
IsClose(e) == e.level = "close"

FirstClose ==
    IF \E j \in 1..Len(events) : IsClose(events[j])
    THEN CHOOSE j \in 1..Len(events) :
            IsClose(events[j]) /\ \A h \in 1..(j - 1) : ~IsClose(events[h])
    ELSE 0

BeforeClose == SubSeq(events, 1, FirstClose - 1)

AfterClose ==
    SelectSeq(SubSeq(events, FirstClose + 1, Len(events)), LAMBDA e : ~IsClose(e))

RECURSIVE LinesOf(_)
LinesOf(es) ==
    IF es = <<>> THEN <<>>
    ELSE LET e == Head(es) IN
         (IF e.level = "record"
          THEN <<[tag |-> "EXECUTED:", body |-> <<e.arg[1]>>]>>
               \o (IF e.arg[2] # "" THEN <<[tag |-> "OUTPUT:", body |-> <<e.arg[2]>>]>> ELSE <<>>)
               \o (IF e.arg[3] # "" THEN <<[tag |-> "ERROR:", body |-> <<e.arg[3]>>]>> ELSE <<>>)
          ELSE <<[tag |-> IF e.level = "info" THEN "[INFO]"
                          ELSE IF e.level = "warn" THEN "[WARNING]" ELSE "[ERROR]",
                  body |-> <<e.what>> \o e.arg]>>)
         \o LinesOf(Tail(es))

LoggerClosed == run = 1 /\ status = "idle" /\ FirstClose > 0

ClosedForGood ==
    /\ file_handle # "open"
    /\ logger.log_file = "writable" => SinceHeader(log_file) = LinesOf(BeforeClose)
    /\ logger.log_file # "writable" => log_file \in PriorLogs
    /\ exit_code = 0

C32_CloseFinal ==
    LoggerClosed =>
        /\ ClosedForGood
        /\ \A j \in 1..Len(AfterClose) :
              LET e == AfterClose[j] IN
              IF e.level = "record"
              THEN (ConsoleLines(e, logger.verbose) # <<>>) <=> logger.verbose
              ELSE Len(ConsoleLines(e, logger.verbose)) = 1

\* the statement as written: a later log_command prints whatever the verbosity
C32_LaterCallsAllPrint ==
    LoggerClosed =>
        /\ ClosedForGood
        /\ \A j \in 1..Len(AfterClose) : ConsoleLines(AfterClose[j], logger.verbose) # <<>>

C32_Witness ==
    /\ LoggerClosed
    /\ logger.log_file = "writable"
    /\ ~logger.verbose
    /\ FirstClose = 2
    /\ Len(events) = 4
    /\ IsClose(events[4])
    /\ events[3].level = "record"

(***************************************************************************)
(* C33: the log file is append-only.  Constructing a Logger on an existing *)
(* file and making any sequence of info, warn, error and log_command calls *)
(* leaves what the file held before as an unchanged prefix, and each call  *)
(* with an open handle puts its lines after everything written earlier,    *)
(* so the file holds the writes in call order.                             *)
(***************************************************************************)
NewCall == events'[Len(events')]

AppendsOnly ==
    /\ IsPrefix(log_file, log_file')
    /\ (run' = 1 /\ Len(events') = Len(events) + 1 /\ file_handle = "open" /\ ~IsClose(NewCall))
          => log_file' = log_file \o LinesOf(<<NewCall>>)

InCallOrder ==
    (run = 1 /\ status = "idle" /\ logger.log_file = "writable")
        => SinceHeader(log_file) =
              LinesOf(IF FirstClose > 0 THEN BeforeClose ELSE events)

C33_AppendOnly == []InCallOrder /\ [][AppendsOnly]_vars

C33_Witness ==
    /\ run = 1 /\ status = "idle"
    /\ file_handle = "open"
    /\ log_file[1] = Line("[INFO]", <<"earlier">>)
    /\ Len(events) = 3
    /\ events[1].level = "record" /\ events[1].arg[2] # "" /\ events[1].arg[3] # ""
    /\ events[2].level = "warn"
    /\ events[3].level = "record"

(***************************************************************************)
(* C34: load_macros returns the value under 'macros' when the root is a    *)
(* mapping with that key, the root itself when it is a mapping without it, *)
(* and an empty mapping for an empty document; it raises a value error     *)
(* when the root is not a mapping and a file-not-found error when the file *)
(* does not exist; and whatever it returns is a mapping.                   *)
(***************************************************************************)
LoadDone == run = 1 /\ document.state # "none"

RootIsMap == document.state = "ok" /\ document.root.kind = "map"

C34_LoadMacrosCases ==
    LoadDone =>
        /\ (RootIsMap /\ "macros" \in DOMAIN document.root.items)
              => loaded.outcome = "returned" /\ loaded.value = document.root.items["macros"]
        /\ (RootIsMap /\ "macros" \notin DOMAIN document.root.items)
              => loaded.outcome = "returned" /\ loaded.value = document.root
        /\ (document.state = "ok" /\ document.root.kind = "null")
              => loaded.outcome = "returned" /\ loaded.value = [kind |-> "map", items |-> <<>>]
        /\ (document.state = "ok" /\ document.root.kind \notin {"map", "null"})
              => loaded.outcome = "raised" /\ loaded.error = "ValueError"
        /\ document.state = "missing"
              => loaded.outcome = "raised" /\ loaded.error = "FileNotFoundError"
        /\ loaded.outcome = "returned" => loaded.value.kind = "map"

(***************************************************************************)
(* C35: a definition whose env mapping has an empty-string key is rejected *)
(* by validation, and a run that executes it ends fatally before any       *)
(* command runs.                                                           *)
(***************************************************************************)
HasEmptyKey(d) ==
    d.kind = "dict" /\ d.has_env /\ d.env_is_dict /\ "" \in DOMAIN d.env

C35_EmptyKeyRejected ==
    (status # "idle" /\ HasEmptyKey(runner_yaml[Top])) =>
        /\ validate_macro_definition(runner_yaml[Top]) # "ok"
        /\ status = "exited"
        /\ exit_code # 0
        /\ calls = <<>>

(***************************************************************************)
(* C36: executing a macro modifies neither the definition mapping, nor any *)
(* definition's command sequence or env mapping, nor the environment of    *)
(* the process: during and after a run, successful or fatal, they are what *)
(* they were before it, and the environment a scope passes to its commands *)
(* is a mapping of its own, built from the two without changing either.    *)
(***************************************************************************)
\* the env mapping a definition carries
DeclaredEnv(d) == IF d.kind = "dict" /\ d.has_env THEN d.env ELSE <<>>

\* the environment of a scope, as a fresh mapping over both sets of keys
FreshScope(name) ==
    [k \in DOMAIN Ambient \cup DOMAIN DeclaredEnv(loaded[name]) |->
        IF k \in DOMAIN DeclaredEnv(loaded[name])
        THEN DeclaredEnv(loaded[name])[k] ELSE Ambient[k]]

C36_NothingModified ==
    status # "idle" =>
        /\ runner_yaml = loaded
        /\ environ = Ambient
        /\ \A j \in 1..Len(frames) :
              /\ frames[j].commands = loaded[frames[j].name].commands
              /\ frames[j].env = FreshScope(frames[j].name)
        /\ \A j \in 1..Len(calls) :
              calls[j].env = FreshScope(calls[j].stack[Len(calls[j].stack)])

C36_Witness ==
    /\ status = "exited"
    /\ Len(calls) >= 2
    /\ \E j \in 1..Len(calls) : calls[j].env # Ambient
    /\ \E n \in DOMAIN loaded : DeclaredEnv(loaded[n]) # <<>> /\ n \in Range(calls[1].stack)

(***************************************************************************)
(* C37: execute_macro invoked for a name that its call stack already       *)
(* holds, by a caller that supplies the stack or by a call step, ends the  *)
(* run fatally, whatever continue_on_error says: no start event is emitted *)
(* for it, its definition is not validated, no step of it runs, and the    *)
(* call stack is left as it was.                                           *)
(***************************************************************************)
\* a step in which the circular-call error is reported
ReportsCircular ==
    /\ events' # events
    /\ events' # <<>>
    /\ events'[Len(events')].what = "circular"

\* what the step added to the logger calls (a top-level call starts afresh)
AddedEvents ==
    IF run' # run THEN events' ELSE SubSeq(events', Len(events) + 1, Len(events'))

RefusedAtEntry ==
    ReportsCircular =>
        /\ status' = "exited"
        /\ exit_code' = 1
        /\ frames' = <<>>
        /\ executed_macros' = executed_macros
        /\ calls' = (IF run' # run THEN <<>> ELSE calls)
        /\ \A j \in 1..Len(AddedEvents) :
              AddedEvents[j].what \in {"calling", "circular"}

InvokedOnOwnStack == supplied /\ status # "idle" /\ args.macro_name \in precall

C37_ReentryRefused ==
    /\ [](InvokedOnOwnStack =>
            /\ status = "exited"
            /\ exit_code = 1
            /\ Len(events) = 1
            /\ events[1].what = "circular"
            /\ calls = <<>>
            /\ executed_macros = precall)
    /\ [][RefusedAtEntry]_vars

C37_Witness ==
    /\ InvokedOnOwnStack
    /\ continue_on_error
    /\ status = "exited"
    /\ ~WellFormed(runner_yaml[args.macro_name])
    /\ Cardinality(executed_macros) = 2

(***************************************************************************)
(* C38: every step is handled as one of two variants.  A mapping with the  *)
(* key 'call', with or without other keys, is expanded as a macro call and *)
(* nothing is executed for it; every other step (a string, a mapping       *)
(* without 'call', a number, null, a sequence) is announced as a command   *)
(* and, unless the run is a dry run, handed to the executor; and no        *)
(* definition is rejected by validation for the kind of its steps.         *)
(***************************************************************************)
HasCallKey(s) == s.kind \in {"call", "callx"}

StepAhead ==
    /\ status = "running"
    /\ frames # <<>>
    /\ frames[Len(frames)].i <= Len(frames[Len(frames)].commands)

TheStep == frames[Len(frames)].commands[frames[Len(frames)].i]

FirstAdded == events'[Len(events) + 1]

HandledAsOneVariant ==
    StepAhead =>
        /\ Len(events') > Len(events)
        /\ IF HasCallKey(TheStep)
           THEN /\ FirstAdded.what = "calling"
                /\ FirstAdded.arg = <<TheStep.text>>
                /\ calls' = calls
           ELSE /\ FirstAdded.what = "running"
                /\ FirstAdded.arg = <<TheStep.text>>
                /\ IF logger.dry_run
                   THEN calls' = calls
                   ELSE /\ Len(calls') = Len(calls) + 1
                        /\ SubSeq(calls', 1, Len(calls)) = calls
                        /\ calls'[Len(calls')].cmd = TheStep.text

NeverRejected == \A j \in 1..Len(events) : events[j].what # "invalid"

====
